---- MODULE Spec2Model ----
(***************************************************************************)
(* Verification model of the ashura engine core:                           *)
(*   - the CPU timeline Semaphore            (ashura/std/async.h)          *)
(*   - the GpuContext deferred release ring  (ashura/engine/gpu_context.cc)*)
(*   - the Canvas recorder and its batching  (ashura/engine/canvas.cc)     *)
(* Each subsystem has its own specification over the shared variables; the *)
(* variables of the other subsystems stay at their initial values.         *)
(***************************************************************************)
EXTENDS Integers, Sequences, FiniteSets, TLC

VARIABLES
  \* ---- Semaphore (async.h:260-350) ----
  num_stages,     \* Semaphore::inner.num_stages
  stage,          \* Semaphore::inner.stage (accessed through std::atomic_ref)
  pc,             \* per thread: "idle" | "signal" | "increment" | "aborted"
  arg,            \* per thread: the clamped parameter (next / inc); 0 outside a call
  current,        \* per thread: local `current` of the CAS loop; 0 outside a call
  target,         \* per thread: local `target` of increment's loop; 0 outside a call
  aborted,        \* a CHECK failed: the process has been terminated
  stage0,         \* history: stage when the calls started
  nSig,           \* history: number of signal calls issued
  sigMax,         \* history: largest raw argument passed to signal
  nInc,           \* history: number of increment calls issued
  incSum          \* history: mathematical sum of the raw increments issued

semVars == <<num_stages, stage, pc, arg, current, target, aborted,
             stage0, nSig, sigMax, nInc, incSum>>

VARIABLES
  \* ---- GpuContext (gpu_context.cc) and the backend's frame context ----
  buffering,         \* GpuContext::buffering (B)
  frame_current,     \* gpu::FrameContext::current, the id of the frame
  frame_ring_index,  \* gpu::FrameContext::ring_index
  in_frame,          \* between begin_frame and end_frame
  released_objects,  \* GpuContext::released_objects, one queue per ring slot
  objects,           \* history, per object handle: its release and destruction
  next_object        \* the next fresh object handle

gpuVars == <<buffering, frame_current, frame_ring_index, in_frame,
             released_objects, objects, next_object>>

VARIABLES
  \* ---- Canvas (canvas.h, canvas.cc) ----
  passes,            \* Canvas::passes
  rrect_params,      \* Canvas::rrect_params (its size)
  ngon_params,       \* Canvas::ngon_params (its size)
  batch,             \* Canvas::batch = {type, clip, objects{offset, span}}
  current_clip,      \* Canvas::current_clip
  canvas_status,     \* "ok", or how the process died inside a Canvas call
  recording,         \* history: between begin_recording and end_recording
  transitions,       \* history: (batch_type, clip) transitions of this recording
  explicit_passes,   \* history: add_pass / blur calls of this recording
  last_op,           \* history: the Canvas operation called last
  pre_passes,        \* history: passes.size() when that operation was called
  pre_batch_type,    \* history: batch.type when that operation was called
  recordings,        \* history: number of begin_recording calls
  draw_hist,         \* history: shape draw calls of this recording, and how
                     \* many of them had degenerate input
  frame_arena        \* Canvas::frame_arena: [arenas (bytes used of each),
                     \* current_arena]

canvasVars == <<passes, rrect_params, ngon_params, batch, current_clip,
                canvas_status, recording, transitions, explicit_passes,
                last_op, pre_passes, pre_batch_type, recordings, draw_hist,
                frame_arena>>

VARIABLES
  \* ---- SSBO (gpu_context.h, gpu_context.cc:737-818) ----
  ssbo,              \* one SSBO: [buffer, descriptor, size]
  ssbo_live          \* SSBO::uninit has not been called on it

ssboVars == <<ssbo, ssbo_live>>

VARIABLES
  \* ---- bindless sampler slots and the sampler cache (gpu_context.cc:478-528) ----
  sampler_slots,     \* GpuContext::sampler_slots, the words of the bitset
  slot_status,       \* "ok", or "out_of_slots" once CHECK_DESC has failed
  slot_held,         \* history: indices handed out and not released since
  slot_last,         \* history: the last alloc / release call and the bitset before it
  sampler_cache,     \* GpuContext::sampler_cache: descriptor -> CachedSampler
  next_sampler,      \* the handle the backend's create_sampler returns next
  sampler_hist       \* history, per descriptor: calls, creations, slots, returns

slotVars == <<sampler_slots, slot_status, slot_held, slot_last,
              sampler_cache, next_sampler, sampler_hist>>

VARIABLES
  \* ---- ReadWriteLock over a SpinLock (async.h:73-180) ----
  flag_,             \* ReadWriteLock::lock_.flag_
  num_writers_,      \* ReadWriteLock::num_writers_
  num_readers_,      \* ReadWriteLock::num_readers_
  rw_pc,             \* per thread: <<operation, position in it>>
  rw_granted,        \* per thread: the critical section granted the lock
  rw_holds           \* history, per thread: "none" | "read" | "write"

rwVars == <<flag_, num_writers_, num_readers_, rw_pc, rw_granted, rw_holds>>

VARIABLES
  \* ---- path::triangulate_stroke / triangulate_convex (canvas.cc:224-320) ----
  path_fn,           \* the function called: "stroke" | "convex"
  path_pc,           \* "call" | "loop" | "done"
  num_points,        \* points.size() (stroke) / num_vertices (convex)
  first_vertex,      \* vertices.size32() at the call (stroke) / the argument (convex)
  first_index,       \* indices.size32() at the call
  vertices_size,     \* vertices.size()
  indices,           \* the index vector (Uninit where nothing was written yet)
  loop_i,            \* the loop counter i
  loop_v,            \* convex: v; stroke: ivtx
  vtx_off,           \* stroke: vtx - (vertices.data() + first_vtx)
  idx_off,           \* stroke: idx - (indices.data() + first_idx)
  vtx_writes,        \* history: positions of `vertices` written by the call
  idx_writes         \* history: positions of `indices` written by the call

pathVars == <<path_fn, path_pc, num_points, first_vertex, first_index,
              vertices_size, indices, loop_i, loop_v, vtx_off, idx_off,
              vtx_writes, idx_writes>>

VARIABLES
  \* ---- path::rrect (canvas.cc:71-136) ----
  rrect_pc,          \* "call" | "done"
  rrect_radii,       \* the argument radii = <<x, y, z, w>>
  rrect_clamped,     \* radii after the doubling and the clamp chain
  \* ---- path::brect (canvas.cc:138-158) ----
  brect_pc,          \* "call" | "done"
  brect_clamped      \* slant after the doubling and the clamp chain

rrectVars == <<rrect_pc, rrect_radii, rrect_clamped, brect_pc, brect_clamped>>

VARIABLES
  \* ---- text layout (text.cc:77-478) ----
  tl_pc,             \* "call" | "paragraph" | "done"
  tl_text,           \* block.text: sequence of [ch, level] (level from SheenBidi)
  tl_fonts,          \* font_bundle is not empty
  tl_max,            \* max_line_width
  paragraph_begin,   \* offset of the paragraph being laid out
  run_segments,      \* TextLayout::run_segments
  lines              \* TextLayout::lines

textVars == <<tl_pc, tl_text, tl_fonts, tl_max, paragraph_begin, run_segments, lines>>

VARIABLES
  \* ---- Scheduler task contract (async.h:376-434) ----
  task_state,        \* per task: "new" | "queued" | "polled" | "freed"
  task_block,        \* per task: its context block, 0 when none
  task_worker,       \* per task: the worker that polled it, 0 when none
  task_log,          \* per task: the callback calls made on it, in order
  sched_on           \* the scheduler is in use

schedVars == <<task_state, task_block, task_worker, task_log, sched_on>>

VARIABLES
  \* ---- GpuContext::init format selection (gpu_context.cc:7-96) ----
  fmt_pc,                    \* "call" | "hdr" | "sdr" | "ds" | "select" | "done" | "abort"
  p_use_hdr,                 \* argument p_use_hdr
  p_args_ok,                 \* p_buffering and p_initial_extent pass their CHECKs
  hdr_features,              \* per HDR format: has_bits(optimal_tiling_features, COLOR_FEATURES)
  sdr_features,              \* per SDR format: the same
  ds_features,               \* per depth-stencil format: has DEPTH_STENCIL_FEATURES
  sel_hdr_color_format,
  sel_sdr_color_format,
  sel_depth_stencil_format,
  color_format,              \* the chosen color format, NoFormat before
  depth_stencil_format,      \* the chosen depth-stencil format, NoFormat before
  fmt_abort,                 \* which CHECK failed, "none" if none
  fmt_warned                 \* the HDR warning was logged

fmtVars == <<fmt_pc, p_use_hdr, p_args_ok, hdr_features, sdr_features, ds_features,
             sel_hdr_color_format, sel_sdr_color_format, sel_depth_stencil_format,
             color_format, depth_stencil_format, fmt_abort, fmt_warned>>

VARIABLES
  \* ---- pass closures of the Canvas (canvas.h:294-307, canvas.cc:326-358) ----
  pass_closures,     \* Canvas::passes, each pass as the closure it holds
  closure,           \* per closure: its memory, its destructor calls, misuse
  canvas_alive,      \* Canvas::uninit has not been called
  num_closures       \* closures created so far

closureVars == <<pass_closures, closure, canvas_alive, num_closures>>

VARIABLES
  \* ---- Canvas ngon geometry (canvas.cc:477-495, 576-869) ----
  ng_vertices,       \* ngon_vertices.size()
  ng_indices,        \* ngon_indices.size()
  ng_index_counts,   \* ngon_index_counts
  ng_params,         \* ngon_params: first_index, first_vertex, and what the call appended
  ng_status          \* "idle" | "ok" | "check_failed"

ngonVars == <<ng_vertices, ng_indices, ng_index_counts, ng_params, ng_status>>

VARIABLES
  \* ---- stx FutureState (stx/async.h:357-662) ----
  info,              \* std::atomic<InfoFutureStatus> info
  term,              \* std::atomic<TerminalFutureStatus> term
  term_hist,         \* the values term took after Pending, in order
  storage_writes,    \* how often the shared result storage was written
  storage_writing,   \* executors inside the setter at this moment
  ex_pc,             \* per executor thread: "idle" | "setter" | "store"
  user_pc,           \* the user thread: "idle" | "load_info"
  user_op,           \* the call the user thread is in: "fetch" | "copy" | "move"
  fetched,           \* the last status fetch_status returned, NoStatus before
  first_done,        \* the first done status the user observed, NoStatus before
  fut_result,        \* what the last copy_result / move_result returned
  fut_calls,         \* calls made on the future so far
  has_result         \* FutureState<T> with a result storage, not FutureState<void>

futVars == <<info, term, term_hist, storage_writes, storage_writing, ex_pc,
             user_pc, user_op, fetched, first_done, fut_result, fut_calls, has_result>>

VARIABLES
  \* ---- ScheduleTimeline::tick (timeline.h:221-291) ----
  tick_pc,               \* "capture" | "poll" | "select" | "window" | "push" | "done"
  slot_queries,          \* what slot.query() returns for each thread slot
  thread_slots_capture,  \* ScheduleTimeline::thread_slots_capture
  promise_status,        \* per task id: what task.promise.fetch_status() returns
  starvation_timeline,   \* ScheduleTimeline::starvation_timeline
  num_selected,          \* the result of select_tasks_for_slots
  next_slot,             \* local next_slot of tick
  push_i,                \* tasks of the selection the push loop has handled
  pushed,                \* the push_task calls of this tick: <<task id, slot>>
  force_suspended        \* ids of the tasks request_force_suspend was called on

tickVars == <<tick_pc, slot_queries, thread_slots_capture, promise_status,
              starvation_timeline, num_selected, next_slot, push_i, pushed,
              force_suspended>>

VARIABLES
  \* ---- AssetManager (vlk/ui/asset_manager.h) ----
  data_state,         \* per tag: AssetData::state, "NoEntry" before add
  data_stale_ticks,   \* per tag: AssetData::stale_ticks
  data_just_accessed, \* per tag: AssetData::just_accessed
  data_holders,       \* per tag: copies of the asset's shared_ptr held outside
  submission_queue_,  \* AssetManager::submission_queue_ (tags)
  completion_queue_,  \* AssetManager::completion_queue_ (tags)
  worker_task,        \* the tag the worker thread is loading, NoTag if none
  ticks_since_get,    \* history: ticks since the asset was loaded or got
  discarded,          \* history: tags tick has discarded
  asset_ticks         \* number of calls of tick

assetVars == <<data_state, data_stale_ticks, data_just_accessed, data_holders,
               submission_queue_, completion_queue_, worker_task, ticks_since_get,
               discarded, asset_ticks>>

VARIABLES
  \* ---- SpinLock used on its own (async.h:73-107) ----
  spin_flag,       \* SpinLock::flag_
  spin_owner,      \* history: the thread whose exchange set flag_, NoThread if free
  spin_returned,   \* per thread: what its last try_lock returned: "none" before,
                   \* "true" or "false"
  spin_acquired,   \* history, per thread: its last try_lock set flag_
  spin_seen        \* history, per thread: flag_ before and after its last try_lock

spinVars == <<spin_flag, spin_owner, spin_returned, spin_acquired, spin_seen>>

VARIABLES
  \* ---- Canvas::text, one pass over the lines (canvas.cc:652-769) ----
  \* vertical positions and extents are kept doubled, so that halves are integers
  td_pc,      \* "lines" | "done"
  td_lines,   \* layout.lines: per line [height, descent]
  td_clip,    \* clip: [center, extent] on the vertical axis
  td_i,       \* lines the loop has handled
  line_y,     \* local line_y of the pass
  td_out      \* per handled line: [skipped, baseline]

textDrawVars == <<td_pc, td_lines, td_clip, td_i, line_y, td_out>>

VARIABLES
  \* ---- stagger_grid_delay (animation.h:144-169) ----
  sg_pc,        \* "call" | "done"
  sg_opts,      \* stagger_opts: [rows, cols, direction, easing], easing a BOOLEAN:
                \* the std::function holds a target
  sg_index,     \* index
  sg_invoked,   \* stagger_opts.easing was invoked
  sg_outcome    \* [kind, pos]: kind "none" | "easing" | "default" |
                \* "bad_function_call", pos the <<row, col>> it was computed for

staggerVars == <<sg_pc, sg_opts, sg_index, sg_invoked, sg_outcome>>

VARIABLES
  \* ---- path::rrect: the vertices it appends (canvas.cc:91-135) ----
  rv_pc,        \* "call" | "corner" | "done"
  rv_segments,  \* the argument segments
  rv_first,     \* vtx.size32() at the call
  rv_size,      \* vtx.size()
  rv_i,         \* local i
  rv_corner,    \* corners written so far
  rv_written    \* positions of vtx the call has assigned

rrectVtxVars == <<rv_pc, rv_segments, rv_first, rv_size, rv_i, rv_corner, rv_written>>

vars == <<semVars, gpuVars, canvasVars, ssboVars, slotVars, rwVars,
          pathVars, rrectVars, textVars, schedVars, fmtVars, closureVars,
          ngonVars, futVars, tickVars, assetVars, spinVars, textDrawVars,
          staggerVars,
          rrectVtxVars>>

\* what the operations of one subsystem leave alone
notSemVars == <<gpuVars, canvasVars, ssboVars, slotVars, rwVars, pathVars, rrectVars, textVars, schedVars, fmtVars, closureVars, ngonVars, futVars, tickVars, assetVars, spinVars, textDrawVars, staggerVars, rrectVtxVars>>
notGpuVars == <<semVars, canvasVars, ssboVars, slotVars, rwVars, pathVars, rrectVars, textVars, schedVars, fmtVars, closureVars, ngonVars, futVars, tickVars, assetVars, spinVars, textDrawVars, staggerVars, rrectVtxVars>>
notCanvasVars == <<semVars, gpuVars, ssboVars, slotVars, rwVars, pathVars, rrectVars, textVars, schedVars, fmtVars, closureVars, ngonVars, futVars, tickVars, assetVars, spinVars, textDrawVars, staggerVars, rrectVtxVars>>
notSsboVars == <<semVars, canvasVars, slotVars, rwVars, pathVars, rrectVars, textVars, schedVars, fmtVars, closureVars, ngonVars, futVars, tickVars, assetVars, spinVars, textDrawVars, staggerVars, rrectVtxVars>>
notSlotVars == <<semVars, gpuVars, canvasVars, ssboVars, rwVars, pathVars, rrectVars, textVars, schedVars, fmtVars, closureVars, ngonVars, futVars, tickVars, assetVars, spinVars, textDrawVars, staggerVars, rrectVtxVars>>
notRwVars == <<semVars, gpuVars, canvasVars, ssboVars, slotVars, pathVars, rrectVars, textVars, schedVars, fmtVars, closureVars, ngonVars, futVars, tickVars, assetVars, spinVars, textDrawVars, staggerVars, rrectVtxVars>>
notPathVars == <<semVars, gpuVars, canvasVars, ssboVars, slotVars, rwVars, rrectVars, textVars, schedVars, fmtVars, closureVars, ngonVars, futVars, tickVars, assetVars, spinVars, textDrawVars, staggerVars, rrectVtxVars>>
notRRectVars == <<semVars, gpuVars, canvasVars, ssboVars, slotVars, rwVars, pathVars, textVars, schedVars, fmtVars, closureVars, ngonVars, futVars, tickVars, assetVars, spinVars, textDrawVars, staggerVars, rrectVtxVars>>
notTextVars == <<semVars, gpuVars, canvasVars, ssboVars, slotVars, rwVars, pathVars, rrectVars, schedVars, fmtVars, closureVars, ngonVars, futVars, tickVars, assetVars, spinVars, textDrawVars, staggerVars, rrectVtxVars>>
notSchedVars == <<semVars, gpuVars, canvasVars, ssboVars, slotVars, rwVars, pathVars, rrectVars, textVars, fmtVars, closureVars, ngonVars, futVars, tickVars, assetVars, spinVars, textDrawVars, staggerVars, rrectVtxVars>>
notFmtVars == <<semVars, gpuVars, canvasVars, ssboVars, slotVars, rwVars, pathVars, rrectVars, textVars, schedVars, closureVars, ngonVars, futVars, tickVars, assetVars, spinVars, textDrawVars, staggerVars, rrectVtxVars>>
notClosureVars == <<semVars, gpuVars, canvasVars, ssboVars, slotVars, rwVars, pathVars, rrectVars, textVars, schedVars, fmtVars, ngonVars, futVars, tickVars, assetVars, spinVars, textDrawVars, staggerVars, rrectVtxVars>>
notNgonVars == <<semVars, gpuVars, canvasVars, ssboVars, slotVars, rwVars, pathVars, rrectVars, textVars, schedVars, fmtVars, closureVars, futVars, tickVars, assetVars, spinVars, textDrawVars, staggerVars, rrectVtxVars>>
notFutVars == <<semVars, gpuVars, canvasVars, ssboVars, slotVars, rwVars, pathVars, rrectVars, textVars, schedVars, fmtVars, closureVars, ngonVars, tickVars, assetVars, spinVars, textDrawVars, staggerVars, rrectVtxVars>>
notTickVars == <<semVars, gpuVars, canvasVars, ssboVars, slotVars, rwVars, pathVars, rrectVars, textVars, schedVars, fmtVars, closureVars, ngonVars, futVars, assetVars, spinVars, textDrawVars, staggerVars, rrectVtxVars>>
notAssetVars == <<semVars, gpuVars, canvasVars, ssboVars, slotVars, rwVars, pathVars, rrectVars, textVars, schedVars, fmtVars, closureVars, ngonVars, futVars, tickVars, spinVars, textDrawVars, staggerVars, rrectVtxVars>>
notSpinVars == <<semVars, gpuVars, canvasVars, ssboVars, slotVars, rwVars, pathVars, rrectVars, textVars, schedVars, fmtVars, closureVars, ngonVars, futVars, tickVars, assetVars, textDrawVars, staggerVars, rrectVtxVars>>
notTextDrawVars == <<semVars, gpuVars, canvasVars, ssboVars, slotVars, rwVars, pathVars, rrectVars, textVars, schedVars, fmtVars, closureVars, ngonVars, futVars, tickVars, assetVars, spinVars, staggerVars, rrectVtxVars>>
notStaggerVars == <<semVars, gpuVars, canvasVars, ssboVars, slotVars, rwVars, pathVars, rrectVars, textVars, schedVars, fmtVars, closureVars, ngonVars, futVars, tickVars, assetVars, spinVars, textDrawVars, rrectVtxVars>>
notRRectVtxVars == <<semVars, gpuVars, canvasVars, ssboVars, slotVars, rwVars, pathVars, rrectVars, textVars, schedVars, fmtVars, closureVars, ngonVars, futVars, tickVars, assetVars, spinVars, textDrawVars, staggerVars>>

-----------------------------------------------------------------------------
(* Bounds of the model *)

\* width in bits of the modelled u64 (the code's is 64)
U64Bits == 2
\* number of threads calling into one Semaphore
NumThreads == 2
\* total number of signal/increment calls issued in one behaviour
MaxCalls == 3

\* largest buffering depth tried (B ranges over 1..MaxBuffering)
MaxBuffering == 3
\* number of frames begun in one behaviour
MaxFrames == 5
\* number of GPU objects released in one behaviour
MaxObjects == 3
\* largest size in bytes asked of SSBO::reserve
MaxSsboSize == 2
\* log2 of the width in bits of a word of the slot bitset (the code's u64: 6)
SlotWordLog2 == 1
\* number of words of the slot bitset
SlotWords == 3
\* alloc / release calls made on the bitset in one behaviour
MaxSlotCalls == 9
\* number of distinct sampler descriptors
NumSamplerDescs == 2
\* create_sampler calls made with one descriptor in one behaviour
MaxSamplerCalls == 3
\* number of threads using one ReadWriteLock
NumLockThreads == 3
\* size of one arena of Canvas::frame_arena, in allocation units (the code's
\* min_arena_size = max_arena_size = 100_KB)
ArenaSize == 2
\* arenas the memory source hands out before the model stops allocating
MaxArenas == 3
\* largest number of points / vertices passed to a triangulation
MaxPathPoints == 4
\* largest number of vertices and of indices already in the vectors at the call
MaxPathFirst == 2
\* f32 values are multiples of 1 / RadiiUnit (1.0f is RadiiUnit)
RadiiUnit == 2
\* the radii passed to path::rrect range over -1 / RadiiUnit .. MaxRadius / RadiiUnit
MaxRadius == 3

\* number of clip rects besides the default (infinite) one
NumClips == 1
\* shape draw calls in one recording
MaxDraws == 3
\* add_pass / blur calls in one recording
MaxExplicitPasses == 2
\* begin_recording calls in one behaviour
MaxRecordings == 2
\* nested calls the stack holds before it overflows
MaxCallDepth == 4

U64_MAX == 2^U64Bits - 1
U64 == 0..U64_MAX
Threads == 1..NumThreads

Min(a, b) == IF a < b THEN a ELSE b
Max(a, b) == IF a > b THEN a ELSE b

\* largest number of codepoints of a text block
MaxTextLen == 4
\* largest bidi embedding level of a codepoint
MaxLevel == 1
\* the finite max_line_width, in advances of one codepoint
MaxLineWidth == 2

\* number of tasks scheduled
NumTasks == 2
\* number of worker threads
NumWorkers == 2
\* largest number of callback calls made on one task
MaxTaskEvents == 6

\* size(HDR_COLOR_FORMATS), size(SDR_COLOR_FORMATS), size(DEPTH_STENCIL_FORMATS)
NumHdrFormats == 2
NumSdrFormats == 2
NumDsFormats == 2

\* largest number of pass closures created on one Canvas
MaxClosures == 4

\* largest number of ngon draw calls of a recording
MaxNgons == 3

\* number of executor threads notifying one future
NumExecutors == 2
\* largest number of calls made on one future
MaxFutureCalls == 5

\* number of tasks on the timeline at the tick
NumTimelineTasks == 2
\* number of thread slots passed to the tick
NumThreadSlots == 2

\* number of asset tags
NumAssetTags == 2
\* AssetManager::max_stale_ticks_ (100 in the source), scaled down
MaxStaleTicks == 1
\* copies of one asset's handle held outside the manager
MaxHolders == 1
\* calls of AssetManager::tick
MaxAssetTicks == 5

\* lines of a text layout drawn by Canvas::text
MaxDrawLines == 3
\* height of a line of the layout
MaxLineHeight == 2
\* the centre of the clip lies within this distance of the text block's centre
MaxClipCenter == 3
\* vertical extent of the clip
MaxClipExtent == 2

\* rows and columns of a stagger grid
MaxGridSide == 2
\* index of an item of a stagger
MaxStaggerIndex == 3

\* the argument segments of path::rrect
MaxSegments == 13

-----------------------------------------------------------------------------
(* Semaphore *)

\* the + of two u64 values
WrapAdd(a, b) == (a + b) % (U64_MAX + 1)

sat_add_wrapping(a, b) == WrapAdd(a, b)
\* constexpr u64 sat_add(u64 a, u64 b)
sat_add(a, b) == IF WrapAdd(a, b) < a THEN U64_MAX ELSE WrapAdd(a, b)

CheckCurrentLeNext_Off(cur, next) == TRUE
\* CHECK(current <= next) in the retry loop of signal
CheckCurrentLeNext(cur, next) == cur <= next

IncrementTarget_NoClamp(cur, inc, n) == sat_add(cur, inc)
\* target = min(sat_add(current, inc), inner.num_stages)
IncrementTarget(cur, inc, n) == Min(sat_add(cur, inc), n)

SignalStore_Swapped(cur, next) == cur
\* the value signal's successful compare_exchange_strong(current, next) stores
SignalStore(cur, next) == next

SignalNext_NoClamp(next, n) == next
\* next = min(next, inner.num_stages)
SignalNext(next, n) == Min(next, n)

\* inc = min(inc, inner.num_stages)
IncrementBy(inc, n) == Min(inc, n)

\* Semaphore::get_stage
get_stage == stage

\* Semaphore::is_completed
is_completed == stage = num_stages

\* Semaphore::init(num_stages): CHECK(num_stages > 0), stage = 0
SemInit ==
  /\ num_stages \in 1..U64_MAX
  /\ stage = 0
  /\ pc = [t \in Threads |-> "idle"]
  /\ arg = [t \in Threads |-> 0]
  /\ current = [t \in Threads |-> 0]
  /\ target = [t \in Threads |-> 0]
  /\ aborted = FALSE
  /\ stage0 = 0
  /\ nSig = 0
  /\ sigMax = 0
  /\ nInc = 0
  /\ incSum = 0

\* a default-constructed Semaphore that nobody uses: Inner{num_stages = 1, stage = 0}
SemIdle ==
  /\ num_stages = 1
  /\ stage = 0
  /\ pc = [t \in Threads |-> "idle"]
  /\ arg = [t \in Threads |-> 0]
  /\ current = [t \in Threads |-> 0]
  /\ target = [t \in Threads |-> 0]
  /\ aborted = FALSE
  /\ stage0 = 0
  /\ nSig = 0
  /\ sigMax = 0
  /\ nInc = 0
  /\ incSum = 0

\* a Semaphore whose stage has already been driven to some s <= num_stages
SemInitAtStage ==
  /\ num_stages \in 1..U64_MAX
  /\ stage \in 0..num_stages
  /\ stage0 = stage
  /\ pc = [t \in Threads |-> "idle"]
  /\ arg = [t \in Threads |-> 0]
  /\ current = [t \in Threads |-> 0]
  /\ target = [t \in Threads |-> 0]
  /\ aborted = FALSE
  /\ nSig = 0
  /\ sigMax = 0
  /\ nInc = 0
  /\ incSum = 0

\* entry of signal(next): next = min(next, num_stages); current = 0
CallSignal(t) ==
  /\ ~aborted
  /\ pc[t] = "idle"
  /\ nSig + nInc < MaxCalls
  /\ \E next \in U64 :
       /\ arg' = [arg EXCEPT ![t] = SignalNext(next, num_stages)]
       /\ sigMax' = IF nSig = 0 THEN next ELSE Max(sigMax, next)
  /\ current' = [current EXCEPT ![t] = 0]
  /\ pc' = [pc EXCEPT ![t] = "signal"]
  /\ nSig' = nSig + 1
  /\ UNCHANGED <<num_stages, stage, target, aborted, stage0, nInc, incSum>>
  /\ UNCHANGED notSemVars

\* one iteration of signal's loop: compare_exchange_strong(current, next),
\* and on failure CHECK(current <= next)
SignalCAS(t) ==
  /\ ~aborted
  /\ pc[t] = "signal"
  /\ IF stage = current[t]
       THEN /\ stage' = SignalStore(current[t], arg[t])
            /\ pc' = [pc EXCEPT ![t] = "idle"]
            /\ arg' = [arg EXCEPT ![t] = 0]
            /\ current' = [current EXCEPT ![t] = 0]
            /\ UNCHANGED aborted
       ELSE /\ current' = [current EXCEPT ![t] = stage]
            /\ IF CheckCurrentLeNext(stage, arg[t])
                 THEN UNCHANGED <<pc, aborted>>
                 ELSE /\ aborted' = TRUE
                      /\ pc' = [pc EXCEPT ![t] = "aborted"]
            /\ UNCHANGED <<stage, arg>>
  /\ UNCHANGED <<num_stages, target, stage0, nSig, sigMax, nInc, incSum>>
  /\ UNCHANGED notSemVars

\* entry of increment(inc): inc = min(inc, num_stages); current = 0; target = inc
CallIncrement(t) ==
  /\ ~aborted
  /\ pc[t] = "idle"
  /\ nSig + nInc < MaxCalls
  /\ \E inc \in U64 :
       /\ arg' = [arg EXCEPT ![t] = IncrementBy(inc, num_stages)]
       /\ target' = [target EXCEPT ![t] = IncrementBy(inc, num_stages)]
       /\ incSum' = incSum + inc
  /\ current' = [current EXCEPT ![t] = 0]
  /\ pc' = [pc EXCEPT ![t] = "increment"]
  /\ nInc' = nInc + 1
  /\ UNCHANGED <<num_stages, stage, aborted, stage0, nSig, sigMax>>
  /\ UNCHANGED notSemVars

\* one iteration of increment's loop: compare_exchange_strong(current, target),
\* and on failure target = min(sat_add(current, inc), num_stages)
IncrementCAS(t) ==
  /\ ~aborted
  /\ pc[t] = "increment"
  /\ IF stage = current[t]
       THEN /\ stage' = target[t]
            /\ pc' = [pc EXCEPT ![t] = "idle"]
            /\ arg' = [arg EXCEPT ![t] = 0]
            /\ current' = [current EXCEPT ![t] = 0]
            /\ target' = [target EXCEPT ![t] = 0]
       ELSE /\ current' = [current EXCEPT ![t] = stage]
            /\ target' = [target EXCEPT ![t] =
                            IncrementTarget(stage, arg[t], num_stages)]
            /\ UNCHANGED <<stage, pc, arg>>
  /\ UNCHANGED <<num_stages, aborted, stage0, nSig, sigMax, nInc, incSum>>
  /\ UNCHANGED notSemVars

\* Semaphore::reset: new (&inner) Inner{} = {num_stages = 1, stage = 0}
Reset ==
  /\ ~aborted
  /\ num_stages' = 1
  /\ stage' = 0
  /\ UNCHANGED <<pc, arg, current, target, aborted, stage0, nSig, sigMax,
                 nInc, incSum>>
  /\ UNCHANGED notSemVars

AllReturned == \A t \in Threads : pc[t] = "idle"

-----------------------------------------------------------------------------
(* GpuContext: deferred release of GPU objects on the per-frame ring *)

\* the null handle
Null == 0
ObjectIds == 1..MaxObjects
RingSlots == 0..(buffering - 1)

NotReleased ==
  [released |-> FALSE, frame |-> 0, in_frame |-> FALSE,
   destroyed |-> 0, destroy_frame |-> 0, destroyed_by |-> "none"]

\* GpuContext::init: CHECK(p_buffering <= MAX_FRAME_BUFFERING && p_buffering > 0),
\* released_objects.resize_defaulted(buffering); the backend starts at frame 0,
\* ring slot 0
GpuInit ==
  /\ buffering \in 1..MaxBuffering
  /\ frame_current = 0
  /\ frame_ring_index = 0
  /\ in_frame = FALSE
  /\ released_objects = [i \in 0..(buffering - 1) |-> <<>>]
  /\ objects = [o \in ObjectIds |-> NotReleased]
  /\ next_object = 1

\* a GpuContext that nobody uses
GpuIdle ==
  /\ buffering = 1
  /\ frame_current = 0
  /\ frame_ring_index = 0
  /\ in_frame = FALSE
  /\ released_objects = [i \in 0..0 |-> <<>>]
  /\ objects = [o \in ObjectIds |-> NotReleased]
  /\ next_object = 1

\* GpuContext::ring_index: device->get_frame_context().ring_index
ring_index == frame_ring_index

\* the backend's submit_frame moves to the next frame and the next ring slot
NextRingIndex(ring, b) == (ring + 1) % b

\* release: released_objects[ring_index()].push(object)
ReleaseSlot(ring, b) == ring

DrainSlot_Next(ring, b) == (ring + 1) % b
\* begin_frame: uninit_objects(span(released_objects[ring_index()]))
DrainSlot(ring, b) == ring

\* uninit_objects: the backend destructor is invoked on every object of the span
uninit_objects(objs, queue, by) ==
  [o \in ObjectIds |->
     IF \E i \in 1..Len(queue) : queue[i] = o
       THEN [objs[o] EXCEPT
               !.destroyed = @ + Cardinality({i \in 1..Len(queue) : queue[i] = o}),
               !.destroy_frame = frame_current,
               !.destroyed_by = by]
       ELSE objs[o]]

\* GpuContext::release(handle), any of its seven overloads: a null handle is
\* ignored, any other is pushed on the queue of the current ring slot
GpuRelease ==
  /\ UNCHANGED notGpuVars
  /\ \E o \in {Null, next_object} :
    IF o = Null
      THEN UNCHANGED gpuVars
      ELSE /\ next_object <= MaxObjects
           /\ released_objects' =
                [released_objects EXCEPT
                   ![ReleaseSlot(ring_index, buffering)] = Append(@, o)]
           /\ objects' = [objects EXCEPT
                            ![o] = [NotReleased EXCEPT !.released = TRUE,
                                                       !.frame = frame_current,
                                                       !.in_frame = in_frame]]
           /\ next_object' = next_object + 1
           /\ UNCHANGED <<buffering, frame_current, frame_ring_index, in_frame>>

\* GpuContext::begin_frame: device->begin_frame, then the release queue of the
\* current ring slot is drained and cleared
GpuBeginFrame ==
  /\ ~in_frame
  /\ frame_current < MaxFrames
  /\ in_frame' = TRUE
  /\ LET slot == DrainSlot(ring_index, buffering) IN
       /\ objects' = uninit_objects(objects, released_objects[slot], "begin_frame")
       /\ released_objects' = [released_objects EXCEPT ![slot] = <<>>]
  /\ UNCHANGED <<buffering, frame_current, frame_ring_index, next_object>>
  /\ UNCHANGED notGpuVars

\* GpuContext::end_frame: blit to the swapchain image, then device->submit_frame
GpuEndFrame ==
  /\ in_frame
  /\ in_frame' = FALSE
  /\ frame_current' = frame_current + 1
  /\ frame_ring_index' = NextRingIndex(frame_ring_index, buffering)
  /\ UNCHANGED <<buffering, released_objects, objects, next_object>>
  /\ UNCHANGED notGpuVars

DrainAll_CurrentOnly(objs, queues, i) ==
  uninit_objects(objs, queues[ring_index], "idle_reclaim")
RECURSIVE DrainAll(_, _, _)
\* the loop of idle_reclaim over released_objects
DrainAll(objs, queues, i) ==
  IF i = buffering THEN objs
  ELSE DrainAll(uninit_objects(objs, queues[i], "idle_reclaim"), queues, i + 1)

\* GpuContext::idle_reclaim: device->wait_idle, then every queue is drained and reset
GpuIdleReclaim ==
  /\ \E i \in RingSlots : released_objects[i] # <<>>
  /\ objects' = DrainAll(objects, released_objects, 0)
  /\ released_objects' = [i \in RingSlots |-> <<>>]
  /\ UNCHANGED <<buffering, frame_current, frame_ring_index, in_frame, next_object>>
  /\ UNCHANGED notGpuVars

-----------------------------------------------------------------------------
(* SSBO: a storage buffer and its descriptor set, owned by a renderer *)

\* SSBO{}: buffer = nullptr, size = 0, descriptor = nullptr
SsboInit ==
  /\ ssbo = [buffer |-> Null, descriptor |-> Null, size |-> 0]
  /\ ssbo_live = TRUE

\* device->uninit_buffer / uninit_descriptor_set called by the owner itself:
\* the backend destructor runs at once (a null handle is ignored)
uninit_object(objs, o, by) ==
  IF o = Null THEN objs
  ELSE [objs EXCEPT ![o] = [@ EXCEPT !.destroyed = @ + 1,
                                     !.destroy_frame = frame_current,
                                     !.destroyed_by = by]]

\* GpuContext::release(handle) as called from an owner
release(queues, o) ==
  IF o = Null THEN queues
  ELSE [queues EXCEPT ![ReleaseSlot(ring_index, buffering)] = Append(@, o)]

\* the history record of a handle passed to release
Released(objs, o) ==
  IF o = Null THEN objs
  ELSE [objs EXCEPT ![o] = [@ EXCEPT !.released = TRUE,
                                     !.frame = frame_current,
                                     !.in_frame = in_frame]]

\* SSBO::reserve(ctx, p_size)
SsboReserve ==
  /\ ssbo_live
  /\ \E p_size \in 0..MaxSsboSize :
       LET size == Max(p_size, 1) IN
         IF ssbo.buffer # Null /\ ssbo.size >= size
           THEN UNCHANGED <<gpuVars, ssboVars>>
           ELSE LET new_descriptor == ssbo.descriptor = Null
                    created == IF new_descriptor THEN 2 ELSE 1 IN
                  /\ next_object + created - 1 <= MaxObjects
                  /\ objects' = uninit_object(objects, ssbo.buffer, "SSBO::reserve")
                  /\ ssbo' = [buffer |-> next_object,
                              descriptor |-> IF new_descriptor
                                               THEN next_object + 1
                                               ELSE ssbo.descriptor,
                              size |-> size]
                  /\ next_object' = next_object + created
                  /\ UNCHANGED <<buffering, frame_current, frame_ring_index,
                                 in_frame, released_objects, ssbo_live>>
  /\ UNCHANGED notSsboVars

\* SSBO::release(ctx): the buffer and the descriptor set go to the release queue
SsboRelease ==
  /\ ssbo_live
  /\ ssbo.buffer # Null \/ ssbo.descriptor # Null
  /\ released_objects' =
       release(release(released_objects, ssbo.buffer), ssbo.descriptor)
  /\ objects' = Released(Released(objects, ssbo.buffer), ssbo.descriptor)
  /\ ssbo' = [buffer |-> Null, descriptor |-> Null, size |-> 0]
  /\ UNCHANGED <<buffering, frame_current, frame_ring_index, in_frame,
                 next_object, ssbo_live>>
  /\ UNCHANGED notSsboVars

\* SSBO::uninit(ctx): the descriptor set and the buffer are destroyed at once
SsboUninit ==
  /\ ssbo_live
  /\ objects' = uninit_object(uninit_object(objects, ssbo.descriptor, "SSBO::uninit"),
                              ssbo.buffer, "SSBO::uninit")
  /\ ssbo_live' = FALSE
  /\ UNCHANGED <<buffering, frame_current, frame_ring_index, in_frame,
                 released_objects, next_object, ssbo>>
  /\ UNCHANGED notSsboVars

-----------------------------------------------------------------------------
(* GpuContext: bindless slot bitset and sampler cache *)

\* NumTraits<Repr>::NUM_BITS and NumTraits<Repr>::MAX of the bitset's word
SlotWordBits == 2^SlotWordLog2
SlotWordMax == 2^SlotWordBits - 1
\* the bitset holds exactly N slots: N fills its words
NumSlots == SlotWords * SlotWordBits
SlotIds == 0..(NumSlots - 1)
SamplerDescs == 1..NumSamplerDescs

\* get_bit(word, i): (s >> i) & 1
get_bit(word, i) == (word \div 2^i) % 2 = 1
\* set_bit(word, i): s |= 1 << i
set_bit(word, i) == IF get_bit(word, i) THEN word ELSE word + 2^i
\* clear_bit(word, i): s &= ~(1 << i)
clear_bit(word, i) == IF get_bit(word, i) THEN word - 2^i ELSE word

\* set_bit(Span, i) / clear_bit(Span, i): word i >> LOG2, bit i & (NUM_BITS - 1)
span_set_bit(s, i) ==
  [s EXCEPT ![(i \div SlotWordBits) + 1] = set_bit(@, i % SlotWordBits)]
span_clear_bit(s, i) ==
  [s EXCEPT ![(i \div SlotWordBits) + 1] = clear_bit(@, i % SlotWordBits)]
span_get_bit(s, i) == get_bit(s[(i \div SlotWordBits) + 1], i % SlotWordBits)

RECURSIVE countr_one(_)
\* std::countr_one: the number of consecutive 1 bits from the least significant
countr_one(word) == IF word % 2 = 1 THEN 1 + countr_one(word \div 2) ELSE 0

find_clear_bit_FirstWord(s, i) ==
  IF s[1] # SlotWordMax THEN countr_one(s[1]) ELSE Len(s) * SlotWordBits
RECURSIVE find_clear_bit(_, _)
\* impl_find_clear_bit, from word i on: the first word that is not MAX gives
\* (i << LOG2_NUM_BITS) | countr_one(word); size << LOG2_NUM_BITS when none is
find_clear_bit(s, i) ==
  IF i >= Len(s) THEN Len(s) * SlotWordBits
  ELSE IF s[i + 1] # SlotWordMax
         THEN i * SlotWordBits + countr_one(s[i + 1])
         ELSE find_clear_bit(s, i + 1)

\* size_bits(sampler_slots)
size_bits(s) == Len(s) * SlotWordBits

NoCall == [op |-> "none", index |-> 0, pre |-> <<>>, pre_held |-> {}, calls |-> 0]
NoSampler == [sampler |-> 0, slot |-> 0]
NoHistory == [calls |-> 0, created |-> 0, allocated |-> 0, returns |-> {}]

\* GpuContext after construction: no slot taken, nothing cached
SlotInit ==
  /\ sampler_slots = [w \in 1..SlotWords |-> 0]
  /\ slot_status = "ok"
  /\ slot_held = {}
  /\ slot_last = NoCall
  /\ sampler_cache = [d \in SamplerDescs |-> NoSampler]
  /\ next_sampler = 1
  /\ sampler_hist = [d \in SamplerDescs |-> NoHistory]

\* GpuContext::alloc_sampler_slot (alloc_texture_slot is the same code on
\* texture_slots): the outcome on bitset s
alloc_slot(s) ==
  LET i == find_clear_bit(s, 0) IN
    IF i < size_bits(s)
      THEN [ok |-> TRUE, index |-> i, slots |-> span_set_bit(s, i)]
      ELSE [ok |-> FALSE, index |-> i, slots |-> s]

\* alloc_sampler_slot called by a user of the context
AllocSamplerSlot ==
  /\ slot_status = "ok"
  /\ slot_last.calls < MaxSlotCalls
  /\ LET r == alloc_slot(sampler_slots) IN
       /\ sampler_slots' = r.slots
       /\ slot_status' = IF r.ok THEN "ok" ELSE "out_of_slots"
       /\ slot_held' = IF r.ok THEN slot_held \cup {r.index} ELSE slot_held
       /\ slot_last' = [op |-> IF r.ok THEN "alloc" ELSE "abort",
                        index |-> r.index, pre |-> sampler_slots,
                        pre_held |-> slot_held, calls |-> slot_last.calls + 1]
  /\ UNCHANGED <<sampler_cache, next_sampler, sampler_hist>>
  /\ UNCHANGED notSlotVars

\* GpuContext::release_sampler_slot(slot)
ReleaseSamplerSlot ==
  /\ slot_status = "ok"
  /\ slot_last.calls < MaxSlotCalls
  /\ \E slot \in SlotIds :
       /\ sampler_slots' = span_clear_bit(sampler_slots, slot)
       /\ slot_held' = slot_held \ {slot}
       /\ slot_last' = [op |-> "release", index |-> slot, pre |-> sampler_slots,
                        pre_held |-> slot_held, calls |-> slot_last.calls + 1]
  /\ UNCHANGED <<slot_status, sampler_cache, next_sampler, sampler_hist>>
  /\ UNCHANGED notSlotVars

\* sampler_cache[desc]: the entry whose key is equal to desc, nullptr if none
CacheLookup(cache, d) == cache[d]
\* sampler_cache.insert(exists, nullptr, desc, sampler)
CacheInsert_Skip(cache, d, sampler) == cache
CacheInsert(cache, d, sampler) == [cache EXCEPT ![d] = sampler]

\* GpuContext::create_sampler(desc)
CreateSampler ==
  /\ slot_status = "ok"
  /\ \E d \in SamplerDescs :
       /\ sampler_hist[d].calls < MaxSamplerCalls
       /\ IF CacheLookup(sampler_cache, d) # NoSampler
            THEN /\ sampler_hist' =
                      [sampler_hist EXCEPT
                         ![d] = [@ EXCEPT !.calls = @ + 1,
                                          !.returns = @ \cup {CacheLookup(sampler_cache, d)}]]
                 /\ UNCHANGED <<sampler_slots, slot_status, slot_held, slot_last,
                                sampler_cache, next_sampler>>
            ELSE LET r == alloc_slot(sampler_slots)
                     sampler == [sampler |-> next_sampler, slot |-> r.index] IN
                   /\ next_sampler' = next_sampler + 1
                   /\ sampler_slots' = r.slots
                   /\ slot_held' = IF r.ok THEN slot_held \cup {r.index} ELSE slot_held
                   /\ slot_last' = [op |-> IF r.ok THEN "alloc" ELSE "abort",
                                    index |-> r.index, pre |-> sampler_slots,
                                    pre_held |-> slot_held, calls |-> slot_last.calls + 1]
                   /\ IF r.ok
                        THEN /\ slot_status' = "ok"
                             /\ sampler_cache' = CacheInsert(sampler_cache, d, sampler)
                             /\ sampler_hist' =
                                  [sampler_hist EXCEPT
                                     ![d] = [@ EXCEPT !.calls = @ + 1,
                                                      !.created = @ + 1,
                                                      !.allocated = @ + 1,
                                                      !.returns = @ \cup {sampler}]]
                        ELSE /\ slot_status' = "out_of_slots"
                             /\ sampler_hist' =
                                  [sampler_hist EXCEPT
                                     ![d] = [@ EXCEPT !.calls = @ + 1,
                                                      !.created = @ + 1]]
                             /\ UNCHANGED sampler_cache
  /\ UNCHANGED notSlotVars

-----------------------------------------------------------------------------
(* SpinLock and ReadWriteLock *)

LockThreads == 1..NumLockThreads
Idle == <<"idle", "idle">>

\* ReadWriteLock{}: lock_ free, no writer, no reader
RwInit ==
  /\ flag_ = FALSE
  /\ num_writers_ = 0
  /\ num_readers_ = 0
  /\ rw_pc = [t \in LockThreads |-> Idle]
  /\ rw_granted = [t \in LockThreads |-> FALSE]
  /\ rw_holds = [t \in LockThreads |-> "none"]

\* lock_read admits the caller: num_writers_ == 0
ReadAdmitted(writers, readers) == writers = 0

WriteAdmitted_IgnoreReaders(writers, readers) == writers = 0
\* lock_write admits the caller: num_writers_ == 0 && num_readers_ == 0
WriteAdmitted(writers, readers) == writers = 0 /\ readers = 0

\* a thread calls lock_read / lock_write when it holds nothing, unlock_read /
\* unlock_write when it holds the lock that way
RwCall(t) ==
  /\ rw_pc[t] = Idle
  /\ \E op \in {"lock_read", "lock_write", "unlock_read", "unlock_write"} :
       /\ op \in {"lock_read", "lock_write"} => rw_holds[t] = "none"
       /\ op = "unlock_read" => rw_holds[t] = "read"
       /\ op = "unlock_write" => rw_holds[t] = "write"
       /\ rw_pc' = [rw_pc EXCEPT ![t] = <<op, "lock">>]
       /\ rw_holds' = [rw_holds EXCEPT
                         ![t] = IF op \in {"unlock_read", "unlock_write"}
                                  THEN "none" ELSE @]
  /\ UNCHANGED <<flag_, num_writers_, num_readers_, rw_granted>>
  /\ UNCHANGED notRwVars

\* LockGuard guard{lock_}: SpinLock::lock, the compare_exchange_strong(false,
\* true) that succeeds (a failed one changes nothing and is retried)
SpinLockLock(t) ==
  /\ rw_pc[t][2] = "lock"
  /\ flag_ = FALSE
  /\ flag_' = TRUE
  /\ rw_pc' = [rw_pc EXCEPT ![t] = <<@[1], "critical">>]
  /\ UNCHANGED <<num_writers_, num_readers_, rw_granted, rw_holds>>
  /\ UNCHANGED notRwVars

\* the body of the operation, run while the guard holds lock_
RwCritical(t) ==
  /\ rw_pc[t][2] = "critical"
  /\ LET op == rw_pc[t][1] IN
       /\ num_readers_' =
            IF op = "lock_read" /\ ReadAdmitted(num_writers_, num_readers_)
              THEN num_readers_ + 1
            ELSE IF op = "unlock_read" THEN num_readers_ - 1
            ELSE num_readers_
       /\ num_writers_' =
            IF op = "lock_write" /\ WriteAdmitted(num_writers_, num_readers_)
              THEN num_writers_ + 1
            ELSE IF op = "unlock_write" THEN num_writers_ - 1
            ELSE num_writers_
       /\ rw_granted' =
            [rw_granted EXCEPT
               ![t] = \/ op = "lock_read" /\ ReadAdmitted(num_writers_, num_readers_)
                      \/ op = "lock_write" /\ WriteAdmitted(num_writers_, num_readers_)
                      \/ op \in {"unlock_read", "unlock_write"}]
  /\ rw_pc' = [rw_pc EXCEPT ![t] = <<@[1], "unlock">>]
  /\ UNCHANGED <<flag_, rw_holds>>
  /\ UNCHANGED notRwVars

\* ~LockGuard: SpinLock::unlock; the operation returns if it was granted,
\* otherwise lock_read / lock_write back off and take the guard again
SpinLockUnlock(t) ==
  /\ rw_pc[t][2] = "unlock"
  /\ flag_' = FALSE
  /\ LET op == rw_pc[t][1] IN
       IF rw_granted[t]
         THEN /\ rw_pc' = [rw_pc EXCEPT ![t] = Idle]
              /\ rw_holds' = [rw_holds EXCEPT
                                ![t] = IF op = "lock_read" THEN "read"
                                       ELSE IF op = "lock_write" THEN "write"
                                       ELSE @]
         ELSE /\ rw_pc' = [rw_pc EXCEPT ![t] = <<op, "lock">>]
              /\ UNCHANGED rw_holds
  /\ rw_granted' = [rw_granted EXCEPT ![t] = FALSE]
  /\ UNCHANGED <<num_writers_, num_readers_>>
  /\ UNCHANGED notRwVars

-----------------------------------------------------------------------------
(* path::triangulate_stroke and path::triangulate_convex *)

\* an element of a vector after extend_uninit, before it is written
Uninit == -1

\* the vectors hold first_vertex vertices and first_index indices at the call
PathInit(fn) ==
  /\ path_fn = fn
  /\ path_pc = "call"
  /\ num_points \in 0..MaxPathPoints
  /\ first_vertex \in 0..MaxPathFirst
  /\ first_index \in 0..MaxPathFirst
  /\ vertices_size = first_vertex
  /\ indices = [k \in 1..first_index |-> 0]
  /\ loop_i = 0
  /\ loop_v = 0
  /\ vtx_off = 0
  /\ idx_off = 0
  /\ vtx_writes = {}
  /\ idx_writes = {}

\* no triangulation running
PathIdle ==
  /\ path_fn = "none"
  /\ path_pc = "done"
  /\ num_points = 0
  /\ first_vertex = 0
  /\ first_index = 0
  /\ vertices_size = 0
  /\ indices = <<>>
  /\ loop_i = 0
  /\ loop_v = 0
  /\ vtx_off = 0
  /\ idx_off = 0
  /\ vtx_writes = {}
  /\ idx_writes = {}

\* Vec::extend_uninit(n) on the index vector
extend_uninit(vec, n) == vec \o [k \in 1..n |-> Uninit]

\* the stores base[at + k] = vals[k + 1], k = 0 .. Len(vals) - 1, into the
\* index vector (a store past the end of the vector does not land in it)
store(vec, at, vals) ==
  [k \in 1..Len(vec) |->
     IF k - 1 >= at /\ k - 1 < at + Len(vals) THEN vals[k - at] ELSE vec[k]]

\* triangulate_stroke: num_vertices = (num_points - 1) * 4
StrokeNumVertices(n) == (n - 1) * 4
\* triangulate_stroke: num_indices = (num_points - 1) * 6 + (num_points - 2) * 6
StrokeNumIndices(n) == (n - 1) * 6 + (n - 2) * 6

StrokeIdxAdvance_Joined(i) == 12
\* triangulate_stroke: idx += 6 for the joint (if i != 0), idx += 6 for the quad
StrokeIdxAdvance(i) == IF i # 0 THEN 12 ELSE 6

\* the indices one iteration stores from idx[0] on: the quad of the segment
\* and, from the second segment on, the joint with the previous one
StrokeIndices(i, ivtx) ==
  <<ivtx, ivtx + 1, ivtx + 3, ivtx, ivtx + 3, ivtx + 2>> \o
  (IF i # 0
     THEN LET prev == ivtx - 2 IN <<prev, prev + 1, ivtx + 1, prev, prev + 1, ivtx>>
     ELSE <<>>)

\* triangulate_stroke up to its loop: fewer than 2 points return at once,
\* otherwise both vectors are extended
StrokeCall ==
  /\ path_fn = "stroke" /\ path_pc = "call"
  /\ IF num_points < 2
       THEN /\ path_pc' = "done"
            /\ UNCHANGED <<vertices_size, indices>>
       ELSE /\ path_pc' = "loop"
            /\ vertices_size' = vertices_size + StrokeNumVertices(num_points)
            /\ indices' = extend_uninit(indices, StrokeNumIndices(num_points))
  /\ UNCHANGED <<path_fn, num_points, first_vertex, first_index, loop_i, loop_v,
                 vtx_off, idx_off, vtx_writes, idx_writes>>
  /\ UNCHANGED notPathVars

\* one iteration of for (i = 0; i < num_points - 1; i++), or its exit
StrokeLoop ==
  /\ path_fn = "stroke" /\ path_pc = "loop"
  /\ IF loop_i < num_points - 1
       THEN LET vals == StrokeIndices(loop_i, loop_v)
                at == first_index + idx_off IN
              /\ indices' = store(indices, at, vals)
              /\ idx_writes' = idx_writes \cup {at + k : k \in 0..(Len(vals) - 1)}
              /\ vtx_writes' = vtx_writes \cup
                               {first_vertex + vtx_off + k : k \in 0..3}
              /\ idx_off' = idx_off + StrokeIdxAdvance(loop_i)
              /\ vtx_off' = vtx_off + 4
              /\ loop_v' = loop_v + 4
              /\ loop_i' = loop_i + 1
              /\ UNCHANGED path_pc
       ELSE /\ path_pc' = "done"
            /\ UNCHANGED <<indices, idx_writes, vtx_writes, idx_off, vtx_off,
                           loop_v, loop_i>>
  /\ UNCHANGED <<path_fn, num_points, first_vertex, first_index, vertices_size>>
  /\ UNCHANGED notPathVars

ConvexNumIndices_PerVertex(n) == (n - 1) * 3
\* triangulate_convex: num_indices = (num_vertices - 2) * 3
ConvexNumIndices(n) == (n - 2) * 3

\* triangulate_convex up to its loop: fewer than 3 vertices return at once,
\* otherwise the index vector is extended; i = 0, v = 1
ConvexCall ==
  /\ path_fn = "convex" /\ path_pc = "call"
  /\ IF num_points < 3
       THEN /\ path_pc' = "done"
            /\ UNCHANGED <<indices, loop_v>>
       ELSE /\ path_pc' = "loop"
            /\ indices' = extend_uninit(indices, ConvexNumIndices(num_points))
            /\ loop_v' = 1
  /\ UNCHANGED <<path_fn, num_points, first_vertex, first_index, vertices_size,
                 loop_i, vtx_off, idx_off, vtx_writes, idx_writes>>
  /\ UNCHANGED notPathVars

\* one iteration of for (i = 0, v = 1; i < num_indices; i += 3, v++), or its exit
ConvexLoop ==
  /\ path_fn = "convex" /\ path_pc = "loop"
  /\ IF loop_i < ConvexNumIndices(num_points)
       THEN LET at == first_index + loop_i IN
              /\ indices' = store(indices, at,
                                  <<first_vertex, first_vertex + loop_v,
                                    first_vertex + loop_v + 1>>)
              /\ idx_writes' = idx_writes \cup {at, at + 1, at + 2}
              /\ loop_i' = loop_i + 3
              /\ loop_v' = loop_v + 1
              /\ UNCHANGED path_pc
       ELSE /\ path_pc' = "done"
            /\ UNCHANGED <<indices, idx_writes, loop_i, loop_v>>
  /\ UNCHANGED <<path_fn, num_points, first_vertex, first_index, vertices_size,
                 vtx_off, idx_off, vtx_writes>>
  /\ UNCHANGED notPathVars

-----------------------------------------------------------------------------
(* path::rrect: doubling and clamp chain of the radii *)

\* f32 values: a number, in units of 1 / RadiiUnit, or NaN
F32(v) == [nan |-> FALSE, v |-> v]
NaN == [nan |-> TRUE, v |-> 0]
\* a < b on f32: false when either is NaN
f32_lt(a, b) == ~a.nan /\ ~b.nan /\ a.v < b.v
\* a - b, a * k on f32 (no rounding on the grid): NaN propagates
f32_sub(a, b) == IF a.nan \/ b.nan THEN NaN ELSE F32(a.v - b.v)
f32_mul(a, k) == IF a.nan THEN NaN ELSE F32(a.v * k)
\* Min::operator(): a < b ? a : b
f32_min(a, b) == IF f32_lt(a, b) THEN a ELSE b

\* the literals 1.0f and 2.0f
One == F32(RadiiUnit)
Two == F32(2 * RadiiUnit)

RadiiInputs == {F32(v) : v \in (-1)..MaxRadius} \cup {NaN}

\* radii = radii * 2; radii.c = min(radii.c, 2.0f)
RRectDouble(r) == f32_min(f32_mul(r, 2), Two)

RRectClampY_Off(x, y) == y
\* radii.y = min(radii.y, 2.0f - radii.x)
RRectClampY(x, y) == f32_min(y, f32_sub(Two, x))
\* max_radius_z = min(2.0f - radii.x, 1.0f - radii.y)
RRectMaxZ(x, y) == f32_min(f32_sub(Two, x), f32_sub(One, y))
\* max_radius_w = min(max_radius_z, 1.0f - radii.z)
RRectMaxW(max_z, z) == f32_min(max_z, f32_sub(One, z))

\* path::rrect: the radii after the doubling and the clipping
rrect_clamp(radii) ==
  LET x == RRectDouble(radii[1])
      y == RRectClampY(x, RRectDouble(radii[2]))
      max_radius_z == RRectMaxZ(x, y)
      z == f32_min(RRectDouble(radii[3]), max_radius_z)
      max_radius_w == RRectMaxW(max_radius_z, z)
      w == f32_min(RRectDouble(radii[4]), max_radius_w)
  IN  <<x, y, z, w>>

\* max_radius_z = min(2.0f - slant.x, 2.0f - slant.y)
BRectMaxZ(x, y) == f32_min(f32_sub(Two, x), f32_sub(Two, y))
\* max_radius_w = min(max_radius_z, 2.0f - slant.z)
BRectMaxW(max_z, z) == f32_min(max_z, f32_sub(Two, z))

\* path::brect: the slant after the doubling and the clamp chain
brect_clamp(slant) ==
  LET x == RRectDouble(slant[1])
      y == f32_min(RRectDouble(slant[2]), f32_sub(Two, x))
      max_radius_z == BRectMaxZ(x, y)
      z == f32_min(RRectDouble(slant[3]), max_radius_z)
      max_radius_w == BRectMaxW(max_radius_z, z)
      w == f32_min(RRectDouble(slant[4]), max_radius_w)
  IN  <<x, y, z, w>>

\* a call path::rrect(vtx, radii, segments) with any radii
RRectInit ==
  /\ rrect_pc = "call"
  /\ rrect_radii \in [1..4 -> RadiiInputs]
  /\ rrect_clamped = <<>>
  /\ brect_pc = "done"
  /\ brect_clamped = <<>>

\* a call path::rrect(vtx, v, segments) and a call path::brect(vtx, v) with
\* the same vector v
BRectInit ==
  /\ rrect_pc = "call"
  /\ rrect_radii \in [1..4 -> RadiiInputs]
  /\ rrect_clamped = <<>>
  /\ brect_pc = "call"
  /\ brect_clamped = <<>>

\* path::rrect not called
RRectIdle ==
  /\ rrect_pc = "done"
  /\ rrect_radii = <<>>
  /\ rrect_clamped = <<>>
  /\ brect_pc = "done"
  /\ brect_clamped = <<>>

\* path::rrect with segments >= 8: the radii its vertices are generated from
RRectCall ==
  /\ rrect_pc = "call"
  /\ rrect_pc' = "done"
  /\ rrect_clamped' = rrect_clamp(rrect_radii)
  /\ UNCHANGED <<rrect_radii, brect_pc, brect_clamped>>
  /\ UNCHANGED notRRectVars

\* path::brect: the slant its eight vertices are generated from
BRectCall ==
  /\ brect_pc = "call"
  /\ brect_pc' = "done"
  /\ brect_clamped' = brect_clamp(rrect_radii)
  /\ UNCHANGED <<rrect_radii, rrect_pc, rrect_clamped>>
  /\ UNCHANGED notRRectVars

-----------------------------------------------------------------------------
(* Canvas: recording and batching *)

\* clip rects: 0 is the default CRect{{0, 0}, {F32_MAX, F32_MAX}}
DefaultClip == 0
Clips == 0..NumClips

\* Canvas::Batch{} : type None, the default clip, objects {0, 0}
NoBatch == [type |-> "None", clip |-> DefaultClip, offset |-> 0, span |-> 0]

NoDraws == [calls |-> 0, degenerate |-> 0]

\* ArenaPool{}: no arena yet
EmptyArenaPool == [arenas |-> <<>>, current_arena |-> 0]

\* ArenaPool::used: the sum of the arenas' used bytes
RECURSIVE SumSeq(_)
SumSeq(q) == IF q = <<>> THEN 0 ELSE Head(q) + SumSeq(Tail(q))
arena_used(pool) == SumSeq(pool.arenas)

\* ArenaPool::reclaim: every arena's offset goes back to its begin,
\* current_arena = 0
arena_reclaim(pool) ==
  [arenas |-> [i \in 1..Len(pool.arenas) |-> 0], current_arena |-> 0]

\* the first arena from current_arena on in which Arena::alloc(size) succeeds
\* (offset + size <= end), 0 if there is none
FirstFit(pool, size) ==
  LET fits == {i \in (pool.current_arena + 1)..Len(pool.arenas) :
                 pool.arenas[i] + size <= ArenaSize}
  IN  IF fits = {} THEN 0 ELSE CHOOSE i \in fits : \A j \in fits : i <= j

\* ArenaPool::alloc(alignment, size, mem) with min_arena_size = max_arena_size
arena_alloc(pool, size) ==
  IF size = 0 THEN [ok |-> TRUE, pool |-> pool]
  ELSE IF size > ArenaSize THEN [ok |-> FALSE, pool |-> pool]
  ELSE IF FirstFit(pool, size) # 0
    THEN [ok |-> TRUE,
          pool |-> [pool EXCEPT !.arenas[FirstFit(pool, size)] = @ + size]]
  ELSE [ok |-> TRUE,
        pool |-> [arenas |-> Append(pool.arenas, size),
                  current_arena |-> Len(pool.arenas)]]

\* Canvas::reset leaves frame_arena as it is
ResetArena(pool) == pool

\* the frame arena after a flush: add_pass(name, lambda) allocates the closure
\* of each pass it appends (when the recursion has killed the process the
\* arena is not looked at any more)
ArenaAfterFlush(pool, appended, status) ==
  IF status = "ok" /\ appended > 0 THEN arena_alloc(pool, 1).pool ELSE pool

\* Canvas after construction
CanvasInit ==
  /\ passes = <<>>
  /\ rrect_params = 0
  /\ ngon_params = 0
  /\ batch = NoBatch
  /\ current_clip = DefaultClip
  /\ canvas_status = "ok"
  /\ recording = FALSE
  /\ transitions = 0
  /\ explicit_passes = 0
  /\ last_op = "init"
  /\ pre_passes = 0
  /\ pre_batch_type = "None"
  /\ recordings = 0
  /\ draw_hist = NoDraws
  /\ frame_arena = EmptyArenaPool

RECURSIVE flush_batch(_, _, _), add_pass(_, _, _, _)

\* static flush_batch(Canvas &c): for an RRect or Ngon batch it calls
\* c.add_pass(name, lambda capturing c.batch) and only then sets c.batch to
\* Batch{.type = None}; for type None it returns.
\* `depth` is the number of stack frames left; the result is the canvas'
\* {passes, batch, status} when the call returns or the process dies.
flush_batch(ps, b, depth) ==
  IF b.type = "None"
    THEN [passes |-> ps, batch |-> b, status |-> "ok"]
    ELSE LET r == add_pass(ps, b, [name |-> b.type, batch |-> b], depth)
         IN  IF r.status = "ok" THEN [r EXCEPT !.batch = NoBatch] ELSE r

\* Canvas::add_pass(name, lambda) -> Canvas::add_pass(Pass pass):
\* flush_batch(*this); passes.push(pass)
add_pass(ps, b, pass, depth) ==
  IF depth = 0
    THEN [passes |-> ps, batch |-> b, status |-> "stack_overflow"]
    ELSE LET r == flush_batch(ps, b, depth - 1)
         IN  IF r.status = "ok" THEN [r EXCEPT !.passes = Append(@, pass)] ELSE r

CanvasLive == canvas_status = "ok"

Called(op) ==
  /\ last_op' = op
  /\ pre_passes' = Len(passes)
  /\ pre_batch_type' = batch.type

\* Canvas::begin_recording -> Canvas::reset: every pass is uninitialised and
\* passes, the param vectors and the batch are cleared (current_clip is kept)
BeginRecording ==
  /\ CanvasLive /\ ~recording
  /\ recordings < MaxRecordings
  /\ passes' = <<>>
  /\ rrect_params' = 0
  /\ ngon_params' = 0
  /\ batch' = NoBatch
  /\ recording' = TRUE
  /\ transitions' = 0
  /\ explicit_passes' = 0
  /\ recordings' = recordings + 1
  /\ Called("begin_recording")
  /\ UNCHANGED <<current_clip, canvas_status>>
  /\ draw_hist' = NoDraws
  /\ frame_arena' = ResetArena(frame_arena)
  /\ UNCHANGED notCanvasVars

\* Canvas::clip: current_clip = c, nothing is flushed
Clip ==
  /\ CanvasLive /\ recording
  /\ \E c \in Clips : c # current_clip /\ current_clip' = c
  /\ Called("clip")
  /\ UNCHANGED <<passes, rrect_params, ngon_params, batch, canvas_status,
                 recording, transitions, explicit_passes, recordings>>
  /\ UNCHANGED draw_hist
  /\ UNCHANGED frame_arena
  /\ UNCHANGED notCanvasVars

\* add_rrect / add_ngon after the param has been pushed at `index`: a batch of
\* another type or clip is flushed and a new batch {index, 1} starts,
\* otherwise the span of the active batch grows
AddToBatch(type, index) ==
  IF batch.type # type \/ batch.clip # current_clip
    THEN LET r == flush_batch(passes, batch, MaxCallDepth) IN
         /\ passes' = r.passes
         /\ canvas_status' = r.status
         /\ batch' = IF r.status = "ok"
                       THEN [type |-> type, clip |-> current_clip,
                             offset |-> index, span |-> 1]
                       ELSE r.batch
         /\ transitions' = transitions + 1
         /\ frame_arena' = ArenaAfterFlush(frame_arena, Len(r.passes) - Len(passes),
                                           r.status)
    ELSE /\ batch' = [batch EXCEPT !.span = @ + 1]
         /\ UNCHANGED <<passes, canvas_status, transitions, frame_arena>>

\* Canvas::circle / rect / rrect -> add_rrect(c, param, current_clip)
DrawRRect ==
  /\ CanvasLive /\ recording
  /\ draw_hist.calls < MaxDraws
  /\ rrect_params' = rrect_params + 1
  /\ AddToBatch("RRect", rrect_params)
  /\ Called("rrect")
  /\ UNCHANGED <<ngon_params, current_clip, recording, explicit_passes,
                 recordings>>
  /\ draw_hist' = [draw_hist EXCEPT !.calls = @ + 1]
  /\ UNCHANGED notCanvasVars

\* Canvas::brect: path::brect always appends its 8 vertices, then
\* add_ngon(c, param, current_clip, num_indices)
DrawNgon ==
  /\ CanvasLive /\ recording
  /\ draw_hist.calls < MaxDraws
  /\ ngon_params' = ngon_params + 1
  /\ AddToBatch("Ngon", ngon_params)
  /\ Called("ngon")
  /\ UNCHANGED <<rrect_params, current_clip, recording, explicit_passes,
                 recordings>>
  /\ draw_hist' = [draw_hist EXCEPT !.calls = @ + 1]
  /\ UNCHANGED notCanvasVars

\* the fewest segments path::squircle generates vertices for
SquircleMinSegments == 128
\* the fewest points Canvas::triangles accepts
TrianglesMinPoints == 3
\* the fewest points Canvas::line accepts
LineMinPoints == 2

\* Canvas::squircle(desc, elasticity, segments): path::squircle returns without
\* a vertex when segments < 128, triangulate_convex then appends no index, and
\* add_ngon is called all the same, with num_indices = 0
DrawSquircle ==
  /\ CanvasLive /\ recording
  /\ draw_hist.calls < MaxDraws
  /\ \E segments \in {SquircleMinSegments - 1, SquircleMinSegments} :
       draw_hist' = [calls |-> draw_hist.calls + 1,
                     degenerate |-> draw_hist.degenerate +
                                      (IF segments < SquircleMinSegments THEN 1 ELSE 0)]
  /\ ngon_params' = ngon_params + 1
  /\ AddToBatch("Ngon", ngon_params)
  /\ Called("squircle")
  /\ UNCHANGED <<rrect_params, current_clip, recording, explicit_passes,
                 recordings>>
  /\ UNCHANGED notCanvasVars

\* Canvas::triangles(desc, points) and Canvas::triangles(desc, points, idx):
\* fewer than 3 points return at once; the first overload then calls
\* path::triangles, whose CHECK(num_vertices > 3) fails for exactly 3 points
DrawTriangles ==
  /\ CanvasLive /\ recording
  /\ draw_hist.calls < MaxDraws
  /\ \E points \in (TrianglesMinPoints - 1)..(TrianglesMinPoints + 1),
        indexed \in BOOLEAN :
       IF points < TrianglesMinPoints
         THEN /\ draw_hist' = [calls |-> draw_hist.calls + 1,
                               degenerate |-> draw_hist.degenerate + 1]
              /\ UNCHANGED <<passes, ngon_params, batch, canvas_status, transitions,
                             frame_arena>>
         ELSE /\ draw_hist' = [draw_hist EXCEPT !.calls = @ + 1]
              /\ IF ~indexed /\ ~(points > 3)
                   THEN /\ canvas_status' = "check_failed"
                        /\ UNCHANGED <<passes, ngon_params, batch, transitions,
                                       frame_arena>>
                   ELSE /\ ngon_params' = ngon_params + 1
                        /\ AddToBatch("Ngon", ngon_params)
  /\ Called("triangles")
  /\ UNCHANGED <<rrect_params, current_clip, recording, explicit_passes,
                 recordings>>
  /\ UNCHANGED notCanvasVars

\* Canvas::line(desc, points): fewer than 2 points return at once, otherwise
\* path::triangulate_stroke and add_ngon
DrawLine ==
  /\ CanvasLive /\ recording
  /\ draw_hist.calls < MaxDraws
  /\ \E points \in (LineMinPoints - 1)..(LineMinPoints + 1) :
       IF points < LineMinPoints
         THEN /\ draw_hist' = [calls |-> draw_hist.calls + 1,
                               degenerate |-> draw_hist.degenerate + 1]
              /\ UNCHANGED <<passes, ngon_params, batch, canvas_status, transitions,
                             frame_arena>>
         ELSE /\ draw_hist' = [draw_hist EXCEPT !.calls = @ + 1]
              /\ ngon_params' = ngon_params + 1
              /\ AddToBatch("Ngon", ngon_params)
  /\ Called("line")
  /\ UNCHANGED <<rrect_params, current_clip, recording, explicit_passes,
                 recordings>>
  /\ UNCHANGED notCanvasVars

\* Canvas::alloc<T>(n): CHECK(frame_arena.nalloc(n, out)), transient scratch
\* taken from the frame arena by the code that records the frame
CanvasAlloc ==
  /\ CanvasLive /\ recording
  /\ \E size \in 1..(ArenaSize + 1) :
       LET r == arena_alloc(frame_arena, size) IN
         /\ Len(r.pool.arenas) <= MaxArenas
         /\ frame_arena' = r.pool
         /\ canvas_status' = IF r.ok THEN "ok" ELSE "check_failed"
  /\ Called("alloc")
  /\ UNCHANGED <<passes, rrect_params, ngon_params, batch, current_clip,
                 recording, transitions, explicit_passes, recordings, draw_hist>>
  /\ UNCHANGED notCanvasVars

\* Canvas::add_pass(Pass) called by the user with a custom pass
AddPass ==
  /\ CanvasLive /\ recording
  /\ explicit_passes < MaxExplicitPasses
  /\ LET r == add_pass(passes, batch, [name |-> "Custom", batch |-> NoBatch],
                       MaxCallDepth) IN
       /\ passes' = r.passes
       /\ batch' = r.batch
       /\ canvas_status' = r.status
       /\ frame_arena' = ArenaAfterFlush(frame_arena,
                                         Len(r.passes) - Len(passes) - 1, r.status)
  /\ explicit_passes' = explicit_passes + 1
  /\ Called("add_pass")
  /\ UNCHANGED <<rrect_params, ngon_params, current_clip, recording,
                 transitions, recordings>>
  /\ UNCHANGED draw_hist
  /\ UNCHANGED notCanvasVars

\* the Blur pass that Canvas::blur appends after its flush and its CHECK
BlurPass == [name |-> "Blur", batch |-> NoBatch]

\* Canvas::blur(area, num_passes): flush_batch(*this); CHECK(num_passes > 0);
\* then the Blur pass is appended
Blur ==
  /\ CanvasLive /\ recording
  /\ explicit_passes < MaxExplicitPasses
  /\ \E num_passes \in 0..1 :
       LET r == flush_batch(passes, batch, MaxCallDepth) IN
       /\ batch' = r.batch
       /\ frame_arena' = ArenaAfterFlush(frame_arena, Len(r.passes) - Len(passes),
                                         r.status)
       /\ IF r.status # "ok"
            THEN passes' = r.passes /\ canvas_status' = r.status
            ELSE IF num_passes > 0
                   THEN passes' = Append(r.passes, BlurPass)
                        /\ canvas_status' = "ok"
                   ELSE passes' = r.passes /\ canvas_status' = "check_failed"
  /\ explicit_passes' = explicit_passes + 1
  /\ Called("blur")
  /\ UNCHANGED <<rrect_params, ngon_params, current_clip, recording,
                 transitions, recordings>>
  /\ UNCHANGED draw_hist
  /\ UNCHANGED notCanvasVars

\* Canvas::end_recording: flush_batch(*this)
EndRecording ==
  /\ CanvasLive /\ recording
  /\ LET r == flush_batch(passes, batch, MaxCallDepth) IN
       /\ passes' = r.passes
       /\ batch' = r.batch
       /\ canvas_status' = r.status
       /\ frame_arena' = ArenaAfterFlush(frame_arena, Len(r.passes) - Len(passes),
                                         r.status)
  /\ recording' = FALSE
  /\ Called("end_recording")
  /\ UNCHANGED <<rrect_params, ngon_params, current_clip, transitions,
                 explicit_passes, recordings>>
  /\ UNCHANGED draw_hist
  /\ UNCHANGED notCanvasVars

-----------------------------------------------------------------------------
(* Text layout: paragraphs, segments, lines and visual reordering *)

\* codepoints: a letter, a space, a paragraph separator
Letter == "a"
Space == " "
Newline == "\n"
Codepoints == {Letter, Space, Newline}
TextBlocks ==
  UNION {[1..n -> [ch : Codepoints, level : 0..MaxLevel]] : n \in 0..MaxTextLen}
\* max_line_width: a finite width or infinity
Infinite == [inf |-> TRUE, v |-> 0]
LineWidths == {Infinite, [inf |-> FALSE, v |-> MaxLineWidth]}
\* a > max_line_width
Exceeds(a, max) == ~max.inf /\ a > max.v

LeftToRight == "LeftToRight"
RightToLeft == "RightToLeft"
\* (run_level & 0x1) == 0 ? LeftToRight : RightToLeft
DirectionOf(level) == IF level % 2 = 0 THEN LeftToRight ELSE RightToLeft

\* SBParagraphGetLength of the paragraph created at offset begin: up to and
\* including the first paragraph separator, or to the end of the text
RECURSIVE ParagraphEnd(_, _)
ParagraphEnd(text, i) ==
  IF i >= Len(text) THEN Len(text)
  ELSE IF text[i + 1].ch = Newline THEN i + 1
  ELSE ParagraphEnd(text, i + 1)

\* the last codepoint that belongs to the run started with run_level
RECURSIVE RunEnd(_, _, _, _)
RunEnd(text, run_text_end, paragraph_text_end, run_level) ==
  IF run_text_end >= paragraph_text_end THEN run_text_end
  ELSE IF text[run_text_end + 1].level # run_level THEN run_text_end
  ELSE RunEnd(text, run_text_end + 1, paragraph_text_end, run_level)

\* the end of the segment scanned from segment_text_end: spaces are batched at
\* the end of a segment, the first codepoint after them starts the next one
RECURSIVE SegmentEnd(_, _, _, _)
SegmentEnd(text, segment_text_end, run_text_end, has_spacing) ==
  IF segment_text_end >= run_text_end THEN segment_text_end
  ELSE IF text[segment_text_end + 1].ch = Space
       THEN SegmentEnd(text, segment_text_end + 1, run_text_end, TRUE)
  ELSE IF has_spacing THEN segment_text_end
  ELSE SegmentEnd(text, segment_text_end + 1, run_text_end, has_spacing)

\* a TextRunSegment; every glyph advances by 1 and there is one per codepoint
TextRunSegment(text, begin, end, level) ==
  [has_spacing |-> \E i \in (begin + 1)..end : text[i].ch = Space,
   text        |-> [offset |-> begin, size |-> end - begin],
   direction   |-> DirectionOf(level),
   width       |-> end - begin]

\* the segments of one run
RECURSIVE RunSegments(_, _, _, _)
RunSegments(text, segment_text_begin, run_text_end, level) ==
  IF segment_text_begin >= run_text_end THEN <<>>
  ELSE LET segment_text_end ==
             SegmentEnd(text, segment_text_begin, run_text_end, FALSE)
       IN  <<TextRunSegment(text, segment_text_begin, segment_text_end, level)>>
           \o RunSegments(text, segment_text_end, run_text_end, level)

\* the segments of one paragraph, run by run
RECURSIVE ParagraphSegments(_, _, _)
ParagraphSegments(text, run_text_begin, paragraph_text_end) ==
  IF run_text_begin >= paragraph_text_end THEN <<>>
  ELSE LET run_level == text[run_text_begin + 1].level
           run_text_end ==
             RunEnd(text, run_text_begin + 1, paragraph_text_end, run_level)
       IN  RunSegments(text, run_text_begin, run_text_end, run_level)
           \o ParagraphSegments(text, run_text_end, paragraph_text_end)

\* the sum of the widths of segs[from + 1 .. to]
RECURSIVE SegmentsWidth(_, _, _)
SegmentsWidth(segs, from, to) ==
  IF from >= to THEN 0 ELSE segs[from + 1].width + SegmentsWidth(segs, from + 1, to)

\* the end of the word started at i: after its first segment with spacing
RECURSIVE WordEnd(_, _)
WordEnd(segs, i) ==
  IF i >= Len(segs) THEN i
  ELSE IF segs[i + 1].has_spacing THEN i + 1
  ELSE WordEnd(segs, i + 1)

\* line breaking: words are added while the line does not exceed max_line_width
RECURSIVE LineEnd(_, _, _, _)
LineEnd(segs, line_end, line_width, max) ==
  IF line_end >= Len(segs) THEN line_end
  ELSE LET break_iter == WordEnd(segs, line_end)
           word_width == SegmentsWidth(segs, line_end, break_iter)
       IN  IF Exceeds(line_width + word_width, max) THEN line_end
           ELSE LineEnd(segs, break_iter, line_width + word_width, max)

\* the lines of one paragraph as <<line_begin, line_end>> over its segments
RECURSIVE ParagraphLines(_, _, _)
ParagraphLines(segs, line_begin, max) ==
  IF line_begin >= Len(segs) THEN <<>>
  ELSE LET first_end == WordEnd(segs, line_begin)
           line_end ==
             LineEnd(segs, first_end,
                     SegmentsWidth(segs, line_begin, first_end), max)
       IN  <<<<line_begin, line_end>>>> \o ParagraphLines(segs, line_end, max)

Reverse_Rotate(s) == IF s = <<>> THEN s ELSE Tail(s) \o <<Head(s)>>
\* Span::reverse
Reverse(s) == [i \in 1..Len(s) |-> s[Len(s) + 1 - i]]

\* the end of the run of segments of one direction started at begin
RECURSIVE DirectionRunEnd(_, _, _)
DirectionRunEnd(segs, direction_run_end, direction) ==
  IF direction_run_end >= Len(segs) THEN direction_run_end
  ELSE IF segs[direction_run_end + 1].direction # direction THEN direction_run_end
  ELSE DirectionRunEnd(segs, direction_run_end + 1, direction)

\* visual reordering of the segments of one line: every maximal run of
\* consecutive RightToLeft segments is reversed
RECURSIVE ReorderFrom(_, _)
ReorderFrom(segs, direction_run_begin) ==
  IF direction_run_begin >= Len(segs) THEN <<>>
  ELSE LET direction == segs[direction_run_begin + 1].direction
           direction_run_end ==
             DirectionRunEnd(segs, direction_run_begin + 1, direction)
           run == SubSeq(segs, direction_run_begin + 1, direction_run_end)
       IN  (IF direction = RightToLeft THEN Reverse(run) ELSE run)
           \o ReorderFrom(segs, direction_run_end)
Reorder(segs) == ReorderFrom(segs, 0)

\* the segments of a paragraph after each of its lines was reordered
RECURSIVE ReorderLines(_, _, _)
ReorderLines(segs, lns, k) ==
  IF k > Len(lns) THEN <<>>
  ELSE Reorder(SubSeq(segs, lns[k][1] + 1, lns[k][2]))
       \o ReorderLines(segs, lns, k + 1)

\* LineMetrics of a line of a paragraph whose segments start at offset
LineMetrics(segs, ln, offset, base_level) ==
  [width               |-> SegmentsWidth(segs, ln[1], ln[2]),
   base_direction      |-> DirectionOf(base_level),
   run_segments_offset |-> offset + ln[1],
   nrun_segments       |-> ln[2] - ln[1]]

\* a call layout(block, scale, font_bundle, max_line_width)
TextInit ==
  /\ tl_pc = "call"
  /\ tl_text \in TextBlocks
  /\ tl_fonts \in BOOLEAN
  /\ tl_max \in LineWidths
  /\ paragraph_begin = 0
  /\ run_segments = <<>>
  /\ lines = <<>>

\* no layout in progress
TextIdle ==
  /\ tl_pc = "done"
  /\ tl_text = <<>>
  /\ tl_fonts = FALSE
  /\ tl_max = Infinite
  /\ paragraph_begin = 0
  /\ run_segments = <<>>
  /\ lines = <<>>

\* layout, up to the paragraph loop: clears the layout and returns when there
\* is no font or no text
LayoutCall ==
  /\ tl_pc = "call"
  /\ lines' = <<>>
  /\ run_segments' = <<>>
  /\ paragraph_begin' = 0
  /\ tl_pc' = IF ~tl_fonts \/ tl_text = <<>> THEN "done" ELSE "paragraph"
  /\ UNCHANGED <<tl_text, tl_fonts, tl_max>>
  /\ UNCHANGED notTextVars

\* one iteration of the paragraph loop: the paragraph's segments, its lines,
\* their reordering and metrics
LayoutParagraph ==
  /\ tl_pc = "paragraph"
  /\ LET paragraph_end == ParagraphEnd(tl_text, paragraph_begin)
         segs == ParagraphSegments(tl_text, paragraph_begin, paragraph_end)
         lns  == ParagraphLines(segs, 0, tl_max)
         paragraph_base_level == tl_text[paragraph_begin + 1].level
     IN  /\ run_segments' = run_segments \o ReorderLines(segs, lns, 1)
         /\ lines' = lines \o
              [k \in 1..Len(lns) |->
                 LineMetrics(segs, lns[k], Len(run_segments), paragraph_base_level)]
         /\ paragraph_begin' = paragraph_end
         /\ tl_pc' = IF paragraph_end < Len(tl_text) THEN "paragraph" ELSE "done"
  /\ UNCHANGED <<tl_text, tl_fonts, tl_max>>
  /\ UNCHANGED notTextVars

-----------------------------------------------------------------------------
(* Scheduler: the task contract *)

Tasks == 1..NumTasks
Workers == 1..NumWorkers
\* context blocks the allocator can hand out
Blocks == 1..NumTasks
NoBlock == 0
NoWorker == 0

\* one call of a TaskInfo callback on a block, with its result
TaskCall(op, block, result) == [op |-> op, block |-> block, result |-> result]

FreeBlocks == Blocks \ {task_block[t] : t \in Tasks}

Requeue_Always(result) == TRUE
\* a task is re-queued if task(block) returned true
Requeue(result) == result

SchedInit ==
  /\ sched_on = TRUE
  /\ task_state = [t \in Tasks |-> "new"]
  /\ task_block = [t \in Tasks |-> NoBlock]
  /\ task_worker = [t \in Tasks |-> NoWorker]
  /\ task_log = [t \in Tasks |-> <<>>]

\* the scheduler is not in use
SchedIdle ==
  /\ sched_on = FALSE
  /\ task_state = [t \in Tasks |-> "new"]
  /\ task_block = [t \in Tasks |-> NoBlock]
  /\ task_worker = [t \in Tasks |-> NoWorker]
  /\ task_log = [t \in Tasks |-> <<>>]

\* schedule_worker(info): allocates a block of info.ctx, calls init(block)
\* and places the task on the queue
ScheduleWorker(t) ==
  /\ sched_on
  /\ task_state[t] = "new"
  /\ \E b \in FreeBlocks :
       /\ task_block' = [task_block EXCEPT ![t] = b]
       /\ task_log' = [task_log EXCEPT ![t] = Append(@, TaskCall("init", b, TRUE))]
  /\ task_state' = [task_state EXCEPT ![t] = "queued"]
  /\ UNCHANGED <<task_worker, sched_on>>
  /\ UNCHANGED notSchedVars

\* a worker takes a queued task and calls poll(block); if false the task is
\* skipped and stays queued
WorkerPoll(w, t) ==
  /\ sched_on
  /\ task_state[t] = "queued"
  /\ \A u \in Tasks : task_worker[u] # w
  /\ Len(task_log[t]) + 3 <= MaxTaskEvents
  /\ \E ready \in BOOLEAN :
       /\ task_log' = [task_log EXCEPT
            ![t] = Append(@, TaskCall("poll", task_block[t], ready))]
       /\ task_state' = [task_state EXCEPT ![t] = IF ready THEN "polled" ELSE "queued"]
       /\ task_worker' = [task_worker EXCEPT ![t] = IF ready THEN w ELSE NoWorker]
  /\ UNCHANGED <<task_block, sched_on>>
  /\ UNCHANGED notSchedVars

\* the worker calls task(block); if it returns true the task is re-queued with
\* the same block, else uninit(block) is called and the block is freed
WorkerTask(w, t) ==
  /\ sched_on
  /\ task_state[t] = "polled"
  /\ task_worker[t] = w
  /\ \E again \in BOOLEAN :
       IF Requeue(again)
       THEN /\ task_log' = [task_log EXCEPT
                 ![t] = Append(@, TaskCall("task", task_block[t], again))]
            /\ task_state' = [task_state EXCEPT ![t] = "queued"]
            /\ UNCHANGED task_block
       ELSE /\ task_log' = [task_log EXCEPT
                 ![t] = @ \o <<TaskCall("task", task_block[t], again),
                               TaskCall("uninit", task_block[t], TRUE)>>]
            /\ task_state' = [task_state EXCEPT ![t] = "freed"]
            /\ task_block' = [task_block EXCEPT ![t] = NoBlock]
  /\ task_worker' = [task_worker EXCEPT ![t] = NoWorker]
  /\ UNCHANGED sched_on
  /\ UNCHANGED notSchedVars

-----------------------------------------------------------------------------
(* GpuContext::init: selection of the color and depth-stencil formats *)

NoFormat == <<"none", 0>>
\* HDR_COLOR_FORMATS[i], SDR_COLOR_FORMATS[i], DEPTH_STENCIL_FORMATS[i]
HDR_COLOR_FORMATS(i) == <<"hdr", i>>
SDR_COLOR_FORMATS(i) == <<"sdr", i>>
DEPTH_STENCIL_FORMATS(i) == <<"depth_stencil", i>>

SdrScanNeeded_NoFallback(use_hdr, sel_hdr) == ~use_hdr
\* !p_use_hdr || sel_hdr_color_format >= size(HDR_COLOR_FORMATS)
SdrScanNeeded(use_hdr, sel_hdr) == ~use_hdr \/ sel_hdr >= NumHdrFormats

\* a call init(device, p_use_hdr, p_buffering, p_initial_extent, shaders) on
\* any device
FmtInit ==
  /\ fmt_pc = "call"
  /\ p_use_hdr \in BOOLEAN
  /\ p_args_ok \in BOOLEAN
  /\ hdr_features \in [0..(NumHdrFormats - 1) -> BOOLEAN]
  /\ sdr_features \in [0..(NumSdrFormats - 1) -> BOOLEAN]
  /\ ds_features \in [0..(NumDsFormats - 1) -> BOOLEAN]
  /\ sel_hdr_color_format = 0
  /\ sel_sdr_color_format = 0
  /\ sel_depth_stencil_format = 0
  /\ color_format = NoFormat
  /\ depth_stencil_format = NoFormat
  /\ fmt_abort = "none"
  /\ fmt_warned = FALSE

\* init is not being called
FmtIdle ==
  /\ fmt_pc = "done"
  /\ p_use_hdr = FALSE
  /\ p_args_ok = TRUE
  /\ hdr_features = [i \in 0..(NumHdrFormats - 1) |-> FALSE]
  /\ sdr_features = [i \in 0..(NumSdrFormats - 1) |-> FALSE]
  /\ ds_features = [i \in 0..(NumDsFormats - 1) |-> FALSE]
  /\ sel_hdr_color_format = 0
  /\ sel_sdr_color_format = 0
  /\ sel_depth_stencil_format = 0
  /\ color_format = NoFormat
  /\ depth_stencil_format = NoFormat
  /\ fmt_abort = "none"
  /\ fmt_warned = FALSE

\* init: the CHECKs of p_buffering and p_initial_extent
GpuInitCall ==
  /\ fmt_pc = "call"
  /\ IF p_args_ok
     THEN /\ fmt_pc' = IF p_use_hdr THEN "hdr" ELSE "sdr"
          /\ UNCHANGED fmt_abort
     ELSE /\ fmt_pc' = "abort"
          /\ fmt_abort' = "args"
  /\ UNCHANGED <<p_use_hdr, p_args_ok, hdr_features, sdr_features, ds_features,
                 sel_hdr_color_format, sel_sdr_color_format,
                 sel_depth_stencil_format, color_format, depth_stencil_format,
                 fmt_warned>>
  /\ UNCHANGED notFmtVars

\* one iteration of the scan of HDR_COLOR_FORMATS, or its end with the warning
HdrScan ==
  /\ fmt_pc = "hdr"
  /\ IF sel_hdr_color_format < NumHdrFormats /\ ~hdr_features[sel_hdr_color_format]
     THEN /\ sel_hdr_color_format' = sel_hdr_color_format + 1
          /\ UNCHANGED <<fmt_pc, fmt_warned>>
     ELSE /\ fmt_warned' = (sel_hdr_color_format >= NumHdrFormats)
          /\ fmt_pc' = IF SdrScanNeeded(p_use_hdr, sel_hdr_color_format)
                       THEN "sdr" ELSE "ds"
          /\ UNCHANGED sel_hdr_color_format
  /\ UNCHANGED <<p_use_hdr, p_args_ok, hdr_features, sdr_features, ds_features,
                 sel_sdr_color_format, sel_depth_stencil_format, color_format,
                 depth_stencil_format, fmt_abort>>
  /\ UNCHANGED notFmtVars

\* one iteration of the scan of SDR_COLOR_FORMATS, or its end
SdrScan ==
  /\ fmt_pc = "sdr"
  /\ IF sel_sdr_color_format < NumSdrFormats /\ ~sdr_features[sel_sdr_color_format]
     THEN /\ sel_sdr_color_format' = sel_sdr_color_format + 1
          /\ UNCHANGED fmt_pc
     ELSE /\ fmt_pc' = "ds"
          /\ UNCHANGED sel_sdr_color_format
  /\ UNCHANGED <<p_use_hdr, p_args_ok, hdr_features, sdr_features, ds_features,
                 sel_hdr_color_format, sel_depth_stencil_format, color_format,
                 depth_stencil_format, fmt_abort, fmt_warned>>
  /\ UNCHANGED notFmtVars

\* one iteration of the scan of DEPTH_STENCIL_FORMATS, or its end
DsScan ==
  /\ fmt_pc = "ds"
  /\ IF /\ sel_depth_stencil_format < NumDsFormats
        /\ ~ds_features[sel_depth_stencil_format]
     THEN /\ sel_depth_stencil_format' = sel_depth_stencil_format + 1
          /\ UNCHANGED fmt_pc
     ELSE /\ fmt_pc' = "select"
          /\ UNCHANGED sel_depth_stencil_format
  /\ UNCHANGED <<p_use_hdr, p_args_ok, hdr_features, sdr_features, ds_features,
                 sel_hdr_color_format, sel_sdr_color_format, color_format,
                 depth_stencil_format, fmt_abort, fmt_warned>>
  /\ UNCHANGED notFmtVars

\* the color format init takes, NoFormat if its CHECK_DESC fails
SelectedColor ==
  IF p_use_hdr
  THEN IF ~(sel_sdr_color_format # NumSdrFormats \/ sel_hdr_color_format # NumHdrFormats)
       THEN NoFormat
       ELSE IF sel_hdr_color_format # NumHdrFormats
            THEN HDR_COLOR_FORMATS(sel_hdr_color_format)
            ELSE SDR_COLOR_FORMATS(sel_sdr_color_format)
  ELSE IF sel_sdr_color_format # NumSdrFormats
       THEN SDR_COLOR_FORMATS(sel_sdr_color_format)
       ELSE NoFormat

\* the CHECK_DESCs and the assignments of color_format and depth_stencil_format
SelectFormats ==
  /\ fmt_pc = "select"
  /\ IF SelectedColor = NoFormat
     THEN /\ fmt_pc' = "abort"
          /\ fmt_abort' = "color"
          /\ UNCHANGED <<color_format, depth_stencil_format>>
     ELSE /\ color_format' = SelectedColor
          /\ IF sel_depth_stencil_format # NumDsFormats
             THEN /\ depth_stencil_format' =
                       DEPTH_STENCIL_FORMATS(sel_depth_stencil_format)
                  /\ fmt_pc' = "done"
                  /\ UNCHANGED fmt_abort
             ELSE /\ fmt_pc' = "abort"
                  /\ fmt_abort' = "depth_stencil"
                  /\ UNCHANGED depth_stencil_format
  /\ UNCHANGED <<p_use_hdr, p_args_ok, hdr_features, sdr_features, ds_features,
                 sel_hdr_color_format, sel_sdr_color_format,
                 sel_depth_stencil_format, fmt_warned>>
  /\ UNCHANGED notFmtVars

-----------------------------------------------------------------------------
(* Canvas: lifetime of the pass closures held in the frame arena *)

Closures == 1..MaxClosures
\* a closure not created yet
NoClosure == [mem |-> "none", uninits |-> 0, tasks |-> 0, stale |-> FALSE]

\* pass.task(render_ctx) on closure c: a call on memory that is not live is a
\* use after free
InvokeTask(c) ==
  [c EXCEPT !.tasks = 1, !.stale = @ \/ c.mem # "live"]
\* pass.uninit(pass.task.data) on closure c: lambda->~Lambda()
InvokeUninit(c) ==
  [c EXCEPT !.uninits = @ + 1, !.stale = @ \/ c.mem # "live"]
\* ArenaPool::uninit: the memory of every arena goes back to the source
ArenaFreed(c) == IF c.mem = "live" THEN [c EXCEPT !.mem = "freed"] ELSE c

InPasses(ps) == {ps[i] : i \in 1..Len(ps)}

\* Canvas::uninit frees the frame arena first and then runs over the passes
UninitOrder(cl, ps) ==
  [i \in Closures |->
     IF i \in InPasses(ps) THEN InvokeUninit(ArenaFreed(cl[i])) ELSE ArenaFreed(cl[i])]

ClosureInit ==
  /\ pass_closures = <<>>
  /\ closure = [i \in Closures |-> NoClosure]
  /\ canvas_alive = TRUE
  /\ num_closures = 0

\* no pass closure was ever made
ClosureIdle ==
  /\ pass_closures = <<>>
  /\ closure = [i \in Closures |-> NoClosure]
  /\ canvas_alive = FALSE
  /\ num_closures = 0

\* Canvas::add_pass(name, lambda): the closure is constructed in memory taken
\* from frame_arena and the pass holding it is pushed
PassAddLambda ==
  /\ canvas_alive
  /\ num_closures < MaxClosures
  /\ num_closures' = num_closures + 1
  /\ closure' = [closure EXCEPT ![num_closures + 1].mem = "live"]
  /\ pass_closures' = Append(pass_closures, num_closures + 1)
  /\ UNCHANGED canvas_alive
  /\ UNCHANGED notClosureVars

\* Renderer::render_frame: the task of every pass is called
PassRender ==
  /\ canvas_alive
  /\ pass_closures # <<>>
  /\ closure' = [i \in Closures |->
                   IF i \in InPasses(pass_closures)
                   THEN InvokeTask(closure[i]) ELSE closure[i]]
  /\ UNCHANGED <<pass_closures, canvas_alive, num_closures>>
  /\ UNCHANGED notClosureVars

\* Canvas::reset: the destructor of every pass is called and passes is
\* cleared; frame_arena is left as it is
PassReset ==
  /\ canvas_alive
  /\ closure' = [i \in Closures |->
                   IF i \in InPasses(pass_closures)
                   THEN InvokeUninit(closure[i]) ELSE closure[i]]
  /\ pass_closures' = <<>>
  /\ UNCHANGED <<canvas_alive, num_closures>>
  /\ UNCHANGED notClosureVars

\* Canvas::uninit: frame_arena.uninit(), the vectors, then the destructor of
\* every pass left in passes, then passes.uninit()
PassCanvasUninit ==
  /\ canvas_alive
  /\ closure' = UninitOrder(closure, pass_closures)
  /\ pass_closures' = <<>>
  /\ canvas_alive' = FALSE
  /\ UNCHANGED num_closures
  /\ UNCHANGED notClosureVars

-----------------------------------------------------------------------------
(* Canvas: geometry recorded by brect, squircle, triangles and line *)

\* the vertices path::brect appends
BRectNumVertices == 8
\* the fewest segments path::cubic_bezier generates vertices for
CubicBezierMinSegments == 4

\* path::cubic_bezier: segments vertices, none if segments < 4
CubicBezierNumVertices(segments) ==
  IF segments < CubicBezierMinSegments THEN 0 ELSE segments
\* path::squircle: four cubic beziers of segments >> 2 vertices, none if
\* segments < 128
SquircleNumVertices(segments) ==
  IF segments < SquircleMinSegments THEN 0
  ELSE 4 * CubicBezierNumVertices(segments \div 4)
\* path::triangulate_convex: the indices appended for num_vertices vertices
ConvexAppended(num_vertices) ==
  IF num_vertices < 3 THEN 0 ELSE ConvexNumIndices(num_vertices)
\* path::triangles: num_triangles * 3 indices with num_triangles = num_vertices / 3
TrianglesAppended(num_vertices) == (num_vertices \div 3) * 3

\* add_ngon(c, param, clip, num_indices) after a call that appended
\* added_vertices vertices and added_indices indices
add_ngon(fn, added_vertices, added_indices, num_indices) ==
  /\ ng_index_counts' = Append(ng_index_counts, num_indices)
  /\ ng_params' = Append(ng_params,
                         [fn |-> fn, first_index |-> ng_indices,
                          first_vertex |-> ng_vertices, appended |-> added_indices])
  /\ ng_vertices' = ng_vertices + added_vertices
  /\ ng_indices' = ng_indices + added_indices
  /\ UNCHANGED ng_status

\* a recording in which only ngon shapes are drawn, under one clip
NgonInit ==
  /\ ng_vertices = 0
  /\ ng_indices = 0
  /\ ng_index_counts = <<>>
  /\ ng_params = <<>>
  /\ ng_status = "ok"

\* no ngon is drawn
NgonIdle ==
  /\ ng_vertices = 0
  /\ ng_indices = 0
  /\ ng_index_counts = <<>>
  /\ ng_params = <<>>
  /\ ng_status = "idle"

NgonLive == ng_status = "ok" /\ Len(ng_params) < MaxNgons

\* Canvas::brect: num_indices = ngon_indices.size32() - first_index
NgonBRect ==
  /\ NgonLive
  /\ add_ngon("brect", BRectNumVertices, ConvexAppended(BRectNumVertices),
              ConvexAppended(BRectNumVertices))
  /\ UNCHANGED notNgonVars

\* Canvas::squircle: num_indices = ngon_indices.size32() - first_index
NgonSquircle ==
  /\ NgonLive
  /\ \E segments \in {SquircleMinSegments - 1, SquircleMinSegments} :
       LET num_vertices == SquircleNumVertices(segments) IN
       add_ngon("squircle", num_vertices, ConvexAppended(num_vertices),
                ConvexAppended(num_vertices))
  /\ UNCHANGED notNgonVars

\* Canvas::triangles(desc, points): path::triangles CHECKs num_vertices > 3,
\* and num_indices = ngon_vertices.size32() - first_vertex
NgonTriangles ==
  /\ NgonLive
  /\ \E points \in (TrianglesMinPoints - 1)..(MaxPathPoints + 1) :
       IF points < TrianglesMinPoints
       THEN UNCHANGED ngonVars
       ELSE IF ~(points > 3)
       THEN /\ ng_status' = "check_failed"
            /\ ng_vertices' = ng_vertices + points
            /\ UNCHANGED <<ng_indices, ng_index_counts, ng_params>>
       ELSE add_ngon("triangles", points, TrianglesAppended(points),
                     (ng_vertices + points) - ng_vertices)
  /\ UNCHANGED notNgonVars

\* Canvas::triangles(desc, points, idx): num_indices = idx.size32()
NgonTrianglesIndexed ==
  /\ NgonLive
  /\ \E points \in (TrianglesMinPoints - 1)..TrianglesMinPoints,
        idx \in {0, 3, 6} :
       IF points < TrianglesMinPoints
       THEN UNCHANGED ngonVars
       ELSE add_ngon("triangles_idx", points, idx, idx)
  /\ UNCHANGED notNgonVars

\* Canvas::line: num_indices = ngon_indices.size32() - first_index
NgonLine ==
  /\ NgonLive
  /\ \E points \in (LineMinPoints - 1)..MaxPathPoints :
       IF points < LineMinPoints
       THEN UNCHANGED ngonVars
       ELSE add_ngon("line", StrokeNumVertices(points), StrokeNumIndices(points),
                     StrokeNumIndices(points))
  /\ UNCHANGED notNgonVars

-----------------------------------------------------------------------------
(* stx::FutureState: terminal status and result storage *)

Executors == 1..NumExecutors
NoStatus == "none"
\* TerminalFutureStatus
Pending == "Pending"
Completing == "Completing"
Completed == "Completed"
Canceled == "Canceled"
ForceCanceled == "ForceCanceled"
\* the InfoFutureStatus values the executors store here
InfoStatuses == {"Scheduled", "Executing", "Canceling"}
\* the terminal notifications without a result: Promise<T> has those of
\* cancelation, Promise<void> also notify_completed()
TermNotifications(with_result) ==
  IF with_result THEN {Canceled, ForceCanceled}
  ELSE {Canceled, ForceCanceled, Completed}
\* user____is_done: Canceled, ForceCanceled or Completed
IsDone(status) == status \in {Canceled, ForceCanceled, Completed}

NoResult == [kind |-> "none", term |-> Pending, written |-> FALSE]

CompareExchange_Store(cur, expected, desired) == desired
\* term.compare_exchange_strong(expected, desired): the value of term after it
CompareExchange(cur, expected, desired) ==
  IF cur = expected THEN desired ELSE cur

CompleteTarget_Completed == Completed
\* executor____complete____with_result: target = Completing
CompleteTarget == Completing

\* a fresh future shared by the executor threads and one user thread
FutInit ==
  /\ info = "Scheduled"
  /\ term = Pending
  /\ term_hist = <<>>
  /\ storage_writes = 0
  /\ storage_writing = {}
  /\ ex_pc = [e \in Executors |-> "idle"]
  /\ user_pc = "idle"
  /\ user_op = "fetch"
  /\ fetched = NoStatus
  /\ first_done = NoStatus
  /\ fut_result = NoResult
  /\ fut_calls = 0
  /\ has_result \in BOOLEAN

\* no future is in use
FutIdle ==
  /\ info = "Scheduled"
  /\ term = Pending
  /\ term_hist = <<>>
  /\ storage_writes = 0
  /\ storage_writing = {}
  /\ ex_pc = [e \in Executors |-> "idle"]
  /\ user_pc = "idle"
  /\ user_op = "fetch"
  /\ fetched = NoStatus
  /\ first_done = NoStatus
  /\ fut_result = NoResult
  /\ fut_calls = MaxFutureCalls
  /\ has_result = FALSE

\* term and its history after a compare-exchange or a store made it `value`
SetTerm(value) ==
  /\ term' = value
  /\ term_hist' = IF value # term THEN Append(term_hist, value) ELSE term_hist

\* executor____notify_scheduled / _executing / _user_canceling ...:
\* notify_info(status), a relaxed store to info
NotifyInfo(e) ==
  /\ ex_pc[e] = "idle"
  /\ fut_calls < MaxFutureCalls
  /\ fut_calls' = fut_calls + 1
  /\ \E status \in InfoStatuses : status # info /\ info' = status
  /\ UNCHANGED <<term, term_hist, storage_writes, storage_writing, ex_pc,
                 user_pc, user_op, fetched, first_done, fut_result>>
  /\ UNCHANGED has_result
  /\ UNCHANGED notFutVars

\* executor____notify_user_canceled / _force_canceled, and for a
\* FutureState<void> executor____complete____with_void:
\* notify_term_no_result(status), a compare-exchange from Pending
NotifyTermNoResult(e) ==
  /\ ex_pc[e] = "idle"
  /\ fut_calls < MaxFutureCalls
  /\ fut_calls' = fut_calls + 1
  /\ \E status \in TermNotifications(has_result) :
       SetTerm(CompareExchange(term, Pending, status))
  /\ UNCHANGED <<info, storage_writes, storage_writing, ex_pc, user_pc, user_op,
                 fetched, first_done, fut_result>>
  /\ UNCHANGED has_result
  /\ UNCHANGED notFutVars

\* Promise<T>::notify_completed(value) -> executor____complete_with_object ->
\* executor____complete____with_result: the compare-exchange from Pending to
\* Completing; the setter runs only if it succeeded
CompleteWithResult(e) ==
  /\ has_result
  /\ ex_pc[e] = "idle"
  /\ fut_calls < MaxFutureCalls
  /\ fut_calls' = fut_calls + 1
  /\ SetTerm(CompareExchange(term, Pending, CompleteTarget))
  /\ ex_pc' = [ex_pc EXCEPT ![e] = IF term = Pending THEN "setter" ELSE "idle"]
  /\ UNCHANGED <<info, storage_writes, storage_writing, user_pc, user_op,
                 fetched, first_done, fut_result>>
  /\ UNCHANGED has_result
  /\ UNCHANGED notFutVars

\* setter_op(): executor____unsafe_init_storage(std::move(value))
CompleteSetter(e) ==
  /\ ex_pc[e] = "setter"
  /\ storage_writes' = storage_writes + 1
  /\ storage_writing' = storage_writing \cup {e}
  /\ ex_pc' = [ex_pc EXCEPT ![e] = "store"]
  /\ UNCHANGED <<info, term, term_hist, user_pc, user_op, fetched, first_done,
                 fut_result, fut_calls>>
  /\ UNCHANGED has_result
  /\ UNCHANGED notFutVars

\* term.store(Completed, release) after the setter
CompleteStore(e) ==
  /\ ex_pc[e] = "store"
  /\ SetTerm(Completed)
  /\ storage_writing' = storage_writing \ {e}
  /\ ex_pc' = [ex_pc EXCEPT ![e] = "idle"]
  /\ UNCHANGED <<info, storage_writes, user_pc, user_op, fetched, first_done,
                 fut_result, fut_calls>>
  /\ UNCHANGED has_result
  /\ UNCHANGED notFutVars

\* user____copy_result / user____move_result on the status fetch_status
\* returned: Ok for Completed, Err(Canceled) for Canceled and ForceCanceled,
\* Err(Pending) otherwise
ResultOf(status, loaded) ==
  [kind    |-> IF status = Completed THEN "Ok"
               ELSE IF status \in {Canceled, ForceCanceled} THEN "Err(Canceled)"
               ELSE "Err(Pending)",
   term    |-> loaded,
   written |-> storage_writes > 0 /\ storage_writing = {}]

\* the return of fetch_status with `status`, inside the call user_op
UserReturn(op, status, loaded) ==
  /\ fetched' = status
  /\ first_done' = IF first_done = NoStatus /\ IsDone(status) THEN status
                   ELSE first_done
  /\ fut_result' = IF op = "fetch" THEN fut_result ELSE ResultOf(status, loaded)
  /\ user_pc' = "idle"

\* user____fetch_status / user____is_done / user____copy_result /
\* user____move_result: fetch_status loads term; a term other than Pending is
\* the status, otherwise info is loaded next
UserCall ==
  /\ user_pc = "idle"
  /\ fut_calls < MaxFutureCalls
  /\ fut_calls' = fut_calls + 1
  /\ \E op \in (IF has_result THEN {"fetch", "copy", "move"} ELSE {"fetch"}) :
       /\ user_op' = op
       /\ IF term # Pending
          THEN UserReturn(op, term, term)
          ELSE /\ user_pc' = "load_info"
               /\ UNCHANGED <<fetched, first_done, fut_result>>
  /\ UNCHANGED <<info, term, term_hist, storage_writes, storage_writing, ex_pc>>
  /\ UNCHANGED has_result
  /\ UNCHANGED notFutVars

\* fetch_status, case Pending: info.load(relaxed) is the status
UserLoadInfo ==
  /\ user_pc = "load_info"
  /\ UserReturn(user_op, info, Pending)
  /\ UNCHANGED <<info, term, term_hist, storage_writes, storage_writing, ex_pc,
                 user_op, fut_calls>>
  /\ UNCHANGED has_result
  /\ UNCHANGED notFutVars

-----------------------------------------------------------------------------
(* ScheduleTimeline::tick: selection of tasks and push onto the thread slots *)

TaskIds == 1..NumTimelineTasks
ThreadSlots == 1..NumThreadSlots
\* an empty Option<TaskId>
NoTask == 0
\* STARVATION_PERIOD, in timepoint units
STARVATION_PERIOD == 1
\* the timepoints and priorities of the tasks of a timeline
Timepoints == {0, 1}
Priorities == {0, 1}
\* the statuses promise.fetch_status() returns here
PolledStatuses == {"ForceSuspended", "Executing", "Suspended", "Completed"}
\* the present_timepoint passed to tick: the clock is steady, it is later than
\* the timepoints the timeline holds
PresentTimepoint == 2

\* ThreadSlot::Query{executing_task, pending_task, can_push}
Queries ==
  [executing_task : TaskIds \cup {NoTask}, pending_task : TaskIds \cup {NoTask},
   can_push : BOOLEAN]
\* the ids on the slots of a vector of queries, with repetitions
OnSlots(qs) ==
  [k \in 1..(2 * Len(qs)) |->
     IF k <= Len(qs) THEN qs[k].executing_task ELSE qs[k - Len(qs)].pending_task]
\* the slots hold a task at most once (what the ticks before have established)
ConsistentQueries(qs) ==
  \A a, b \in 1..(2 * Len(qs)) :
    (a # b /\ OnSlots(qs)[a] # NoTask) => OnSlots(qs)[a] # OnSlots(qs)[b]

\* ScheduleTimeline::Task as add_task leaves it
TimelineTask(id, priority, tp) ==
  [id |-> id, priority |-> priority, last_preempt_timepoint |-> tp,
   last_status_poll |-> "Scheduled"]

\* the arrangements of the elements of a sequence
Arrangements(s) ==
  {[i \in 1..Len(s) |-> s[p[i]]] :
     p \in {q \in [1..Len(s) -> 1..Len(s)] :
              \A a, b \in 1..Len(s) : a # b => q[a] # q[b]}}

\* remove_done_and_canceled_tasks: the done tasks leave the timeline
IsDoneStatus(status) == status \in {"Completed", "Canceled", "ForceCanceled"}
RECURSIVE RemoveDone(_)
RemoveDone(tl) ==
  IF tl = <<>> THEN <<>>
  ELSE IF IsDoneStatus(Head(tl).last_status_poll) THEN RemoveDone(Tail(tl))
  ELSE <<Head(tl)>> \o RemoveDone(Tail(tl))

\* sort_and_partition_timeline: the tasks that are not Suspended come first,
\* sorted by last_preempt_timepoint, descending; the result is any arrangement
\* std::partition and std::sort can produce
Starving(tl) == {i \in 1..Len(tl) : tl[i].last_status_poll # "Suspended"}
SortedAndPartitioned(tl) ==
  {s \in Arrangements(tl) :
     /\ Starving(s) = 1..Cardinality(Starving(s))
     /\ \A i, j \in Starving(s) :
          i < j => s[i].last_preempt_timepoint >= s[j].last_preempt_timepoint}

\* the selection loop of select_tasks_for_slots from position `it` (0-based)
\* on: the position at which it stops
RECURSIVE SelectionEnd(_, _, _, _, _)
SelectionEnd(tl, it, starving_end, num_slots, selection_period_span) ==
  IF ~(it < starving_end) THEN it
  ELSE IF tl[it + 1].last_preempt_timepoint - tl[1].last_preempt_timepoint
            <= selection_period_span
       THEN SelectionEnd(tl, it + 1, starving_end, num_slots, selection_period_span)
  ELSE IF it < num_slots
       THEN SelectionEnd(tl, it + 1, starving_end, num_slots,
                         selection_period_span + STARVATION_PERIOD)
  ELSE it

\* std::sort of the selection by priority, descending: any arrangement of the
\* first n tasks it can produce, the others staying where they are
SortedByPriority(tl, n) ==
  {s \o SubSeq(tl, n + 1, Len(tl)) :
     s \in {a \in Arrangements(SubSeq(tl, 1, n)) :
              \A i, j \in 1..n : i < j => a[i].priority >= a[j].priority}}

\* the task is already on a slot of the capture
HasSlot_Never(capture, id) == FALSE
HasSlot(capture, id) ==
  \E k \in 1..Len(capture) :
    capture[k].executing_task = id \/ capture[k].pending_task = id

\* ThreadSlot::push_task: the task is pending on the slot until the thread of
\* the slot takes it
push_task(query, id) == [query EXCEPT !.pending_task = id, !.can_push = FALSE]

\* the while loop of the push: the first slot from next_slot on whose captured
\* query says can_push, the number of slots if there is none (slots 0-based)
RECURSIVE PushSlot(_, _)
PushSlot(capture, slot) ==
  IF ~(slot < Len(capture)) THEN Len(capture)
  ELSE IF capture[slot + 1].can_push THEN slot
  ELSE PushSlot(capture, slot + 1)

\* a tick on a timeline of tasks in any state and slots in any state
TickInit ==
  /\ tick_pc = "capture"
  /\ slot_queries \in {qs \in [ThreadSlots -> Queries] : ConsistentQueries(qs)}
  /\ thread_slots_capture = <<>>
  /\ promise_status \in [TaskIds -> PolledStatuses]
  /\ starvation_timeline \in
       {[id \in TaskIds |-> TimelineTask(id, pr[id], tp[id])] :
          pr \in [TaskIds -> Priorities], tp \in [TaskIds -> Timepoints]}
  /\ num_selected = 0
  /\ next_slot = 0
  /\ push_i = 0
  /\ pushed = <<>>
  /\ force_suspended = {}

\* no tick is running
TickIdle ==
  /\ tick_pc = "done"
  /\ slot_queries = <<>>
  /\ thread_slots_capture = <<>>
  /\ promise_status = <<>>
  /\ starvation_timeline = <<>>
  /\ num_selected = 0
  /\ next_slot = 0
  /\ push_i = 0
  /\ pushed = <<>>
  /\ force_suspended = {}

\* tick: thread_slots_capture is resized and filled with slot.query()
TickCapture ==
  /\ tick_pc = "capture"
  /\ thread_slots_capture' = slot_queries
  /\ tick_pc' = "poll"
  /\ UNCHANGED <<slot_queries, promise_status, starvation_timeline, num_selected,
                 next_slot, push_i, pushed, force_suspended>>
  /\ UNCHANGED notTickVars

\* the body of the loop of poll_tasks for one task: the fetched status is
\* stored in last_status_poll, then the test for the preempt timepoint reads
\* last_status_poll
PollTask(task, new_status, present) ==
  LET polled == [task EXCEPT !.last_status_poll = new_status]
  IN  IF polled.last_status_poll # "ForceSuspended" /\ new_status = "ForceSuspended"
      THEN [polled EXCEPT !.last_preempt_timepoint = present]
      ELSE polled

\* poll_tasks: the status of every task is fetched, the done tasks are
\* removed; tick returns if the timeline is empty
TickPoll ==
  /\ tick_pc = "poll"
  /\ starvation_timeline' =
       RemoveDone([i \in 1..Len(starvation_timeline) |->
                     PollTask(starvation_timeline[i],
                              promise_status[starvation_timeline[i].id],
                              PresentTimepoint)])
  /\ tick_pc' = IF starvation_timeline' = <<>> THEN "done" ELSE "select"
  /\ UNCHANGED <<slot_queries, thread_slots_capture, promise_status, num_selected,
                 next_slot, push_i, pushed, force_suspended>>
  /\ UNCHANGED notTickVars

\* select_tasks_for_slots begins: sort_and_partition_timeline
TickSortPartition ==
  /\ tick_pc = "select"
  /\ starvation_timeline' \in SortedAndPartitioned(starvation_timeline)
  /\ tick_pc' = "window"
  /\ UNCHANGED <<slot_queries, thread_slots_capture, promise_status, num_selected,
                 next_slot, push_i, pushed, force_suspended>>
  /\ UNCHANGED notTickVars

\* the rest of select_tasks_for_slots(num_slots), then request_force_suspend
\* on the tasks that were not selected and are not ForceSuspended
TickSelect ==
  /\ tick_pc = "window"
  /\ LET num_slots == Len(thread_slots_capture)
         selection_end ==
           SelectionEnd(starvation_timeline, 0,
                        Cardinality(Starving(starvation_timeline)), num_slots,
                        STARVATION_PERIOD)
     IN  \E selection \in SortedByPriority(starvation_timeline, selection_end) :
           /\ starvation_timeline' = selection
           /\ num_selected' = Min(num_slots, selection_end)
           /\ force_suspended' =
                force_suspended \cup
                  {selection[i].id : i \in
                     {j \in (num_selected' + 1)..Len(selection) :
                        selection[j].last_status_poll # "ForceSuspended"}}
  /\ next_slot' = 0
  /\ push_i' = 0
  /\ tick_pc' = "push"
  /\ UNCHANGED <<slot_queries, thread_slots_capture, promise_status, pushed>>
  /\ UNCHANGED notTickVars

\* one iteration of the loop over the selected tasks: a task that is on no
\* slot of the capture is pushed to the next slot that can take it
TickPush ==
  /\ tick_pc = "push"
  /\ IF push_i < num_selected
     THEN LET task == starvation_timeline[push_i + 1]
              slot == PushSlot(thread_slots_capture, next_slot)
          IN  /\ push_i' = push_i + 1
              /\ IF HasSlot(thread_slots_capture, task.id)
                 THEN UNCHANGED <<next_slot, pushed, force_suspended, slot_queries>>
                 ELSE IF slot < Len(thread_slots_capture)
                 THEN /\ force_suspended' = force_suspended \ {task.id}
                      /\ slot_queries' =
                           [slot_queries EXCEPT ![slot + 1] = push_task(@, task.id)]
                      /\ pushed' = Append(pushed, <<task.id, slot>>)
                      /\ next_slot' = slot + 1
                 ELSE /\ next_slot' = slot
                      /\ UNCHANGED <<pushed, force_suspended, slot_queries>>
              /\ UNCHANGED tick_pc
     ELSE /\ tick_pc' = "done"
          /\ UNCHANGED <<push_i, next_slot, pushed, force_suspended, slot_queries>>
  /\ UNCHANGED <<thread_slots_capture, promise_status, starvation_timeline,
                 num_selected>>
  /\ UNCHANGED notTickVars

\* the timeline and the slots when the scheduler starts: every task was added
\* by add_task, which notifies ForceSuspended, and every slot is free
TicksInit ==
  /\ tick_pc = "capture"
  /\ slot_queries \in
       {[s \in 1..n |-> [executing_task |-> NoTask, pending_task |-> NoTask,
                         can_push |-> TRUE]] : n \in ThreadSlots}
  /\ thread_slots_capture = <<>>
  /\ promise_status = [id \in TaskIds |-> "ForceSuspended"]
  /\ starvation_timeline \in
       {[id \in TaskIds |-> TimelineTask(id, pr[id], tp[id])] :
          pr \in [TaskIds -> Priorities], tp \in [TaskIds -> Timepoints]}
  /\ num_selected = 0
  /\ next_slot = 0
  /\ push_i = 0
  /\ pushed = <<>>
  /\ force_suspended = {}

\* the scheduler thread calls tick again
TickBegin ==
  /\ tick_pc = "done"
  /\ tick_pc' = "capture"
  /\ num_selected' = 0
  /\ next_slot' = 0
  /\ push_i' = 0
  /\ pushed' = <<>>
  /\ UNCHANGED <<slot_queries, thread_slots_capture, promise_status,
                 starvation_timeline, force_suspended>>
  /\ UNCHANGED notTickVars

\* the thread of a slot takes the pending task and runs it
SlotTakePending ==
  /\ tick_pc = "done"
  /\ \E s \in 1..Len(slot_queries) :
       /\ slot_queries[s].pending_task # NoTask
       /\ slot_queries[s].executing_task = NoTask
       /\ slot_queries' =
            [slot_queries EXCEPT
               ![s] = [executing_task |-> @.pending_task, pending_task |-> NoTask,
                       can_push |-> TRUE]]
       /\ promise_status' =
            [promise_status EXCEPT ![slot_queries[s].pending_task] = "Executing"]
  /\ UNCHANGED <<tick_pc, thread_slots_capture, starvation_timeline, num_selected,
                 next_slot, push_i, pushed, force_suspended>>
  /\ UNCHANGED notTickVars

\* a running task honours the request to suspend: it notifies ForceSuspended
\* and returns
TaskYields ==
  /\ tick_pc = "done"
  /\ \E s \in 1..Len(slot_queries) :
       /\ slot_queries[s].executing_task \in force_suspended
       /\ promise_status' =
            [promise_status EXCEPT ![slot_queries[s].executing_task] = "ForceSuspended"]
       /\ slot_queries' = [slot_queries EXCEPT ![s].executing_task = NoTask]
  /\ UNCHANGED <<tick_pc, thread_slots_capture, starvation_timeline, num_selected,
                 next_slot, push_i, pushed, force_suspended>>
  /\ UNCHANGED notTickVars

\* a running task completes
TaskCompletes ==
  /\ tick_pc = "done"
  /\ \E s \in 1..Len(slot_queries) :
       /\ slot_queries[s].executing_task # NoTask
       /\ promise_status' =
            [promise_status EXCEPT ![slot_queries[s].executing_task] = "Completed"]
       /\ slot_queries' = [slot_queries EXCEPT ![s].executing_task = NoTask]
  /\ UNCHANGED <<tick_pc, thread_slots_capture, starvation_timeline, num_selected,
                 next_slot, push_i, pushed, force_suspended>>
  /\ UNCHANGED notTickVars

-----------------------------------------------------------------------------
(* AssetManager: get, the worker thread, tick *)

AssetTags == 1..NumAssetTags
NoTag == 0

\* shared_ptr::use_count of entry.asset: the manager's copy and the holders'
use_count_Manager(tag) == 1
use_count(tag) == 1 + data_holders[tag]

\* AssetManager(): no entry; add(tag, ...) is modelled by AssetAdd
AssetInit ==
  /\ data_state = [tag \in AssetTags |-> "NoEntry"]
  /\ data_stale_ticks = [tag \in AssetTags |-> 0]
  /\ data_just_accessed = [tag \in AssetTags |-> FALSE]
  /\ data_holders = [tag \in AssetTags |-> 0]
  /\ submission_queue_ = <<>>
  /\ completion_queue_ = <<>>
  /\ worker_task = NoTag
  /\ ticks_since_get = [tag \in AssetTags |-> 0]
  /\ discarded = {}
  /\ asset_ticks = 0

\* there is no asset manager
AssetIdle ==
  /\ data_state = <<>>
  /\ data_stale_ticks = <<>>
  /\ data_just_accessed = <<>>
  /\ data_holders = <<>>
  /\ submission_queue_ = <<>>
  /\ completion_queue_ = <<>>
  /\ worker_task = NoTag
  /\ ticks_since_get = <<>>
  /\ discarded = {}
  /\ asset_ticks = 0

\* add(tag, load_args, loader) for a tag without entry
AssetAdd(tag) ==
  /\ data_state[tag] = "NoEntry"
  /\ data_state' = [data_state EXCEPT ![tag] = "Unloaded"]
  /\ data_stale_ticks' = [data_stale_ticks EXCEPT ![tag] = 0]
  /\ data_just_accessed' = [data_just_accessed EXCEPT ![tag] = FALSE]
  /\ UNCHANGED <<data_holders, submission_queue_, completion_queue_, worker_task,
                 ticks_since_get, discarded, asset_ticks>>
  /\ UNCHANGED notAssetVars

\* get(tag) with a change of state: a Loaded asset is marked accessed and a
\* copy of its handle is returned; an Unloaded asset is submitted for loading
\* (get of a Loading asset and of an unknown tag return an error)
AssetGet(tag) ==
  /\ \/ /\ data_state[tag] = "Loaded"
        /\ data_holders[tag] < MaxHolders
        /\ data_just_accessed' = [data_just_accessed EXCEPT ![tag] = TRUE]
        /\ data_holders' = [data_holders EXCEPT ![tag] = @ + 1]
        /\ ticks_since_get' = [ticks_since_get EXCEPT ![tag] = 0]
        /\ UNCHANGED <<data_state, submission_queue_>>
     \/ /\ data_state[tag] = "Unloaded"
        /\ data_state' = [data_state EXCEPT ![tag] = "Loading"]
        /\ submission_queue_' = Append(submission_queue_, tag)
        /\ UNCHANGED <<data_just_accessed, data_holders, ticks_since_get>>
  /\ UNCHANGED <<data_stale_ticks, completion_queue_, worker_task, discarded,
                 asset_ticks>>
  /\ UNCHANGED notAssetVars

\* a holder drops a copy of the handle
AssetHandleDrop(tag) ==
  /\ data_holders[tag] > 0
  /\ data_holders' = [data_holders EXCEPT ![tag] = @ - 1]
  /\ UNCHANGED <<data_state, data_stale_ticks, data_just_accessed, submission_queue_,
                 completion_queue_, worker_task, ticks_since_get, discarded,
                 asset_ticks>>
  /\ UNCHANGED notAssetVars

\* worker_thread_task: a submission is popped
AssetWorkerPop ==
  /\ worker_task = NoTag
  /\ submission_queue_ # <<>>
  /\ worker_task' = Head(submission_queue_)
  /\ submission_queue_' = Tail(submission_queue_)
  /\ UNCHANGED <<data_state, data_stale_ticks, data_just_accessed, data_holders,
                 completion_queue_, ticks_since_get, discarded, asset_ticks>>
  /\ UNCHANGED notAssetVars

\* worker_thread_task: the asset is loaded and pushed to the completion queue
AssetWorkerComplete ==
  /\ worker_task # NoTag
  /\ completion_queue_' = Append(completion_queue_, worker_task)
  /\ worker_task' = NoTag
  /\ UNCHANGED <<data_state, data_stale_ticks, data_just_accessed, data_holders,
                 submission_queue_, ticks_since_get, discarded, asset_ticks>>
  /\ UNCHANGED notAssetVars

\* tick, first loop: every completion makes its entry Loaded
Completions == {completion_queue_[i] : i \in 1..Len(completion_queue_)}
StateAfterCompletions ==
  [tag \in AssetTags |-> IF tag \in Completions THEN "Loaded" ELSE data_state[tag]]
\* tick, second loop: stale_ticks of an entry after the reset or the increment
StaleTicksCounted(tag) ==
  IF data_just_accessed[tag] THEN 0
  ELSE IF StateAfterCompletions[tag] = "Loaded" THEN data_stale_ticks[tag] + 1
  ELSE data_stale_ticks[tag]
\* tick, second loop: the test for discarding the asset of an entry
Discards(tag) ==
  /\ StaleTicksCounted(tag) > MaxStaleTicks
  /\ StateAfterCompletions[tag] = "Loaded"
  /\ use_count(tag) = 1

AssetTick ==
  /\ asset_ticks < MaxAssetTicks
  /\ asset_ticks' = asset_ticks + 1
  /\ completion_queue_' = <<>>
  /\ data_state' =
       [tag \in AssetTags |->
          IF Discards(tag) THEN "Unloaded" ELSE StateAfterCompletions[tag]]
  /\ data_stale_ticks' =
       [tag \in AssetTags |-> IF Discards(tag) THEN 0 ELSE StaleTicksCounted(tag)]
  /\ data_just_accessed' = [tag \in AssetTags |-> FALSE]
  /\ ticks_since_get' =
       [tag \in AssetTags |->
          IF StateAfterCompletions[tag] = "Loaded" THEN ticks_since_get[tag] + 1
          ELSE 0]
  /\ discarded' = discarded \cup {tag \in AssetTags : Discards(tag)}
  /\ UNCHANGED <<data_holders, submission_queue_, worker_task>>
  /\ UNCHANGED notAssetVars

-----------------------------------------------------------------------------
(* SpinLock: lock, try_lock, unlock *)

NoThread == 0

\* std::atomic_ref<bool>::compare_exchange_strong(expected, desired): the new
\* value of the flag and of `expected`
compare_exchange_strong(flag, expected, desired) ==
  IF flag = expected THEN [flag |-> desired, expected |-> expected]
  ELSE [flag |-> flag, expected |-> flag]

\* what try_lock returns after the exchange: `expected`
TryLockResult(exchanged) == IF exchanged.expected THEN "true" ELSE "false"

\* SpinLock{}: flag_ = false
SpinInit ==
  /\ spin_flag = FALSE
  /\ spin_owner = NoThread
  /\ spin_returned = [t \in LockThreads |-> "none"]
  /\ spin_acquired = [t \in LockThreads |-> FALSE]
  /\ spin_seen = [t \in LockThreads |-> <<FALSE, FALSE>>]

\* there is no such lock
SpinIdle ==
  /\ spin_flag = FALSE
  /\ spin_owner = NoThread
  /\ spin_returned = <<>>
  /\ spin_acquired = <<>>
  /\ spin_seen = <<>>

\* SpinLock::try_lock by a thread that does not hold the lock
SpinTryLock(t) ==
  /\ spin_owner # t
  /\ LET exchanged == compare_exchange_strong(spin_flag, FALSE, TRUE) IN
       /\ spin_flag' = exchanged.flag
       /\ spin_returned' =
            [spin_returned EXCEPT ![t] = TryLockResult(exchanged)]
       /\ spin_acquired' = [spin_acquired EXCEPT ![t] = ~spin_flag /\ exchanged.flag]
       /\ spin_seen' = [spin_seen EXCEPT ![t] = <<spin_flag, exchanged.flag>>]
       /\ spin_owner' = IF ~spin_flag /\ exchanged.flag THEN t ELSE spin_owner
  /\ UNCHANGED notSpinVars

\* SpinLock::lock: the exchange that succeeds (a failed one changes nothing
\* and is retried)
SpinLockAcquire(t) ==
  /\ spin_owner # t
  /\ compare_exchange_strong(spin_flag, FALSE, TRUE).expected = FALSE
  /\ spin_flag' = compare_exchange_strong(spin_flag, FALSE, TRUE).flag
  /\ spin_owner' = t
  /\ spin_returned' = [spin_returned EXCEPT ![t] = "none"]
  /\ spin_acquired' = [spin_acquired EXCEPT ![t] = FALSE]
  /\ UNCHANGED spin_seen
  /\ UNCHANGED notSpinVars

\* SpinLock::unlock by the thread that holds the lock
SpinRelease(t) ==
  /\ spin_owner = t
  /\ spin_flag' = FALSE
  /\ spin_owner' = NoThread
  /\ UNCHANGED <<spin_returned, spin_acquired, spin_seen>>
  /\ UNCHANGED notSpinVars

-----------------------------------------------------------------------------
(* Canvas::text: the lines of a layout against the clip *)

\* the lines a layout can hold
DrawLines ==
  UNION {[1..n -> [height : 1..MaxLineHeight, descent : 0..1]] : n \in 1..MaxDrawLines}
\* clips that are unbounded horizontally, as the default clip is
DrawClips == [center : (-MaxClipCenter)..MaxClipCenter, extent : 0..MaxClipExtent]

RECURSIVE SumHeights(_, _)
SumHeights(ls, n) == IF n = 0 THEN 0 ELSE ls[n].height + SumHeights(ls, n - 1)

\* overlaps(CRect, CRect) on the vertical axis; a CRect spans
\* center - extent / 2 .. center + extent / 2
overlaps(a, b) ==
  /\ 2 * a.center - a.extent <= 2 * b.center + b.extent
  /\ 2 * b.center - b.extent <= 2 * a.center + a.extent

\* layout.extent.y is the sum of the heights of the lines;
\* line_y = -block_extent.y * 0.5F (doubled: the negated sum)
TextDrawInit ==
  /\ td_pc = "lines"
  /\ td_lines \in DrawLines
  /\ td_clip \in DrawClips
  /\ td_i = 0
  /\ line_y = -SumHeights(td_lines, Len(td_lines))
  /\ td_out = <<>>

\* no text is being drawn
TextDrawIdle ==
  /\ td_pc = "done"
  /\ td_lines = <<>>
  /\ td_clip = <<>>
  /\ td_i = 0
  /\ line_y = 0
  /\ td_out = <<>>

\* the rectangle the loop tests against the clip for a line at line_y (doubled):
\* CRect{.center = desc.center + line_y, .extent = {block_width, height}},
\* desc.center being the origin
LineRect(y2, ln) == [center |-> y2, extent |-> 2 * ln.height]
ClipRect == [center |-> 2 * td_clip.center, extent |-> 2 * td_clip.extent]

\* one iteration of the loop over layout.lines
TextDrawLine ==
  /\ td_pc = "lines"
  /\ td_i < Len(td_lines)
  /\ LET ln == td_lines[td_i + 1] IN
       IF ~overlaps(ClipRect, LineRect(line_y, ln))
       THEN /\ td_out' = Append(td_out, [skipped |-> TRUE, baseline |-> 0])
            /\ UNCHANGED line_y
       ELSE /\ line_y' = line_y + 2 * ln.height
            /\ td_out' = Append(td_out, [skipped |-> FALSE,
                                         baseline |-> line_y' - 2 * ln.descent])
  /\ td_i' = td_i + 1
  /\ td_pc' = IF td_i' = Len(td_lines) THEN "done" ELSE "lines"
  /\ UNCHANGED <<td_lines, td_clip>>
  /\ UNCHANGED notTextDrawVars

-----------------------------------------------------------------------------
(* stagger_grid_delay *)

StaggerOptions ==
  [rows : 1..MaxGridSide, cols : 1..MaxGridSide,
   direction : {"RowMajor", "ColumnMajor"}, easing : BOOLEAN]

\* grid_position(index, rows, cols, direction): <<row, col>>
grid_position(index, rows, cols, direction) ==
  IF direction = "RowMajor" THEN <<index \div cols, index % cols>>
  ELSE <<index % rows, index \div rows>>

\* the test that sends stagger_grid_delay to the call of the easing function
CallsEasing(opts) == ~opts.easing

\* invoking a std::function: one without target throws bad_function_call
InvokeEasing(opts) == IF opts.easing THEN "easing" ELSE "bad_function_call"

StaggerInit ==
  /\ sg_pc = "call"
  /\ sg_opts \in StaggerOptions
  /\ sg_index \in 0..MaxStaggerIndex
  /\ sg_invoked = FALSE
  /\ sg_outcome = [kind |-> "none", pos |-> <<0, 0>>]

\* no call
StaggerIdle ==
  /\ sg_pc = "done"
  /\ sg_opts = <<>>
  /\ sg_index = 0
  /\ sg_invoked = FALSE
  /\ sg_outcome = [kind |-> "none", pos |-> <<0, 0>>]

\* stagger_grid_delay(index, count, stagger_opts)
StaggerGridDelay ==
  /\ sg_pc = "call"
  /\ sg_pc' = "done"
  /\ LET pos == grid_position(sg_index, sg_opts.rows, sg_opts.cols,
                              sg_opts.direction)
     IN  IF CallsEasing(sg_opts)
         THEN /\ sg_invoked' = TRUE
              /\ sg_outcome' = [kind |-> InvokeEasing(sg_opts), pos |-> pos]
         ELSE /\ sg_invoked' = FALSE
              /\ sg_outcome' = [kind |-> "default", pos |-> pos]
  /\ UNCHANGED <<sg_opts, sg_index>>
  /\ UNCHANGED notStaggerVars

-----------------------------------------------------------------------------
(* path::rrect: vertices *)

\* the least number of segments path::rrect accepts
RRectMinSegments == 8
\* curve_segments = (segments - 8) / 4
curve_segments(segments) == (segments - RRectMinSegments) \div 4

\* a call path::rrect(vtx, radii, segments) on a vector of any size
RRectVtxInit ==
  /\ rv_pc = "call"
  /\ rv_segments \in 0..MaxSegments
  /\ rv_first \in 0..MaxPathFirst
  /\ rv_size = rv_first
  /\ rv_i = 0
  /\ rv_corner = 0
  /\ rv_written = {}

\* no call
RRectVtxIdle ==
  /\ rv_pc = "done"
  /\ rv_segments = 0
  /\ rv_first = 0
  /\ rv_size = 0
  /\ rv_i = 0
  /\ rv_corner = 0
  /\ rv_written = {}

\* the call up to vtx.extend_uninit(segments); it returns at once when
\* segments < 8
RRectVtxCall ==
  /\ rv_pc = "call"
  /\ IF rv_segments < RRectMinSegments
     THEN /\ rv_pc' = "done"
          /\ UNCHANGED rv_size
     ELSE /\ rv_pc' = "corner"
          /\ rv_size' = rv_size + rv_segments
  /\ UNCHANGED <<rv_segments, rv_first, rv_i, rv_corner, rv_written>>
  /\ UNCHANGED notRRectVtxVars

\* one corner: a straight endpoint, curve_segments samples of the arc, a
\* straight endpoint, each assigned to vtx[first + i++]
RRectVtxCorner ==
  /\ rv_pc = "corner"
  /\ LET n == 1 + curve_segments(rv_segments) + 1 IN
       /\ rv_written' = rv_written \cup {rv_first + rv_i + k : k \in 0..(n - 1)}
       /\ rv_i' = rv_i + n
  /\ rv_corner' = rv_corner + 1
  /\ rv_pc' = IF rv_corner' = 4 THEN "done" ELSE "corner"
  /\ UNCHANGED <<rv_segments, rv_first, rv_size>>
  /\ UNCHANGED notRRectVtxVars

-----------------------------------------------------------------------------
(* Specifications *)

\* signal calls only
InitSignal == SemInit /\ GpuIdle /\ CanvasInit /\ SsboInit /\ SlotInit /\ RwInit /\ PathIdle /\ RRectIdle
  /\ TextIdle /\ SchedIdle /\ FmtIdle /\ ClosureIdle /\ NgonIdle /\ FutIdle /\ TickIdle /\ AssetIdle
  /\ SpinIdle /\ TextDrawIdle /\ StaggerIdle /\ RRectVtxIdle
NextSignal == \E t \in Threads : CallSignal(t) \/ SignalCAS(t)
SpecSignal == InitSignal /\ [][NextSignal]_vars

\* increment calls only, on a semaphore at some stage s
InitIncrement == SemInitAtStage /\ GpuIdle /\ CanvasInit /\ SsboInit /\ SlotInit /\ RwInit /\ PathIdle /\ RRectIdle
  /\ TextIdle /\ SchedIdle /\ FmtIdle /\ ClosureIdle /\ NgonIdle /\ FutIdle /\ TickIdle /\ AssetIdle
  /\ SpinIdle /\ TextDrawIdle /\ StaggerIdle /\ RRectVtxIdle
NextIncrement == \E t \in Threads : CallIncrement(t) \/ IncrementCAS(t)
SpecIncrement == InitIncrement /\ [][NextIncrement]_vars

\* signal and increment calls from any thread
InitSemaphore == SemInit /\ GpuIdle /\ CanvasInit /\ SsboInit /\ SlotInit /\ RwInit /\ PathIdle /\ RRectIdle
  /\ TextIdle /\ SchedIdle /\ FmtIdle /\ ClosureIdle /\ NgonIdle /\ FutIdle /\ TickIdle /\ AssetIdle
  /\ SpinIdle /\ TextDrawIdle /\ StaggerIdle /\ RRectVtxIdle
NextSemaphore ==
  \E t \in Threads :
    CallSignal(t) \/ SignalCAS(t) \/ CallIncrement(t) \/ IncrementCAS(t)
SpecSemaphore == InitSemaphore /\ [][NextSemaphore]_vars

\* signal, increment and reset
NextSemaphoreReset ==
  \/ \E t \in Threads :
       CallSignal(t) \/ SignalCAS(t) \/ CallIncrement(t) \/ IncrementCAS(t)
  \/ Reset
SpecSemaphoreReset == InitSemaphore /\ [][NextSemaphoreReset]_vars

\* the frame loop of a GpuContext with releases and idle_reclaim
InitGpu == SemIdle /\ GpuInit /\ CanvasInit /\ SsboInit /\ SlotInit /\ RwInit /\ PathIdle /\ RRectIdle
  /\ TextIdle /\ SchedIdle /\ FmtIdle /\ ClosureIdle /\ NgonIdle /\ FutIdle /\ TickIdle /\ AssetIdle
  /\ SpinIdle /\ TextDrawIdle /\ StaggerIdle /\ RRectVtxIdle
NextGpu == GpuRelease \/ GpuBeginFrame \/ GpuEndFrame \/ GpuIdleReclaim
SpecGpu == InitGpu /\ [][NextGpu]_vars

\* one SSBO used over the frames of a GpuContext
InitSsbo == SemIdle /\ GpuInit /\ CanvasInit /\ SsboInit /\ SlotInit /\ RwInit /\ PathIdle /\ RRectIdle
  /\ TextIdle /\ SchedIdle /\ FmtIdle /\ ClosureIdle /\ NgonIdle /\ FutIdle /\ TickIdle /\ AssetIdle
  /\ SpinIdle /\ TextDrawIdle /\ StaggerIdle /\ RRectVtxIdle
NextSsbo ==
  \/ SsboReserve \/ SsboRelease \/ SsboUninit
  \/ GpuBeginFrame \/ GpuEndFrame \/ GpuIdleReclaim
SpecSsbo == InitSsbo /\ [][NextSsbo]_vars

\* allocation and release of bindless sampler slots
InitSlots == SemIdle /\ GpuIdle /\ CanvasInit /\ SsboInit /\ SlotInit /\ RwInit /\ PathIdle /\ RRectIdle
  /\ TextIdle /\ SchedIdle /\ FmtIdle /\ ClosureIdle /\ NgonIdle /\ FutIdle /\ TickIdle /\ AssetIdle
  /\ SpinIdle /\ TextDrawIdle /\ StaggerIdle /\ RRectVtxIdle
NextSlots == AllocSamplerSlot \/ ReleaseSamplerSlot
SpecSlots == InitSlots /\ [][NextSlots]_vars

\* create_sampler calls, with slots also taken by other users
InitSampler == SemIdle /\ GpuIdle /\ CanvasInit /\ SsboInit /\ SlotInit /\ RwInit /\ PathIdle /\ RRectIdle
  /\ TextIdle /\ SchedIdle /\ FmtIdle /\ ClosureIdle /\ NgonIdle /\ FutIdle /\ TickIdle /\ AssetIdle
  /\ SpinIdle /\ TextDrawIdle /\ StaggerIdle /\ RRectVtxIdle
NextSampler == CreateSampler \/ AllocSamplerSlot
SpecSampler == InitSampler /\ [][NextSampler]_vars

\* threads taking and giving back one ReadWriteLock
InitRwLock == SemIdle /\ GpuIdle /\ CanvasInit /\ SsboInit /\ SlotInit /\ RwInit /\ PathIdle /\ RRectIdle
  /\ TextIdle /\ SchedIdle /\ FmtIdle /\ ClosureIdle /\ NgonIdle /\ FutIdle /\ TickIdle /\ AssetIdle
  /\ SpinIdle /\ TextDrawIdle /\ StaggerIdle /\ RRectVtxIdle
NextRwLock ==
  \E t \in LockThreads :
    RwCall(t) \/ SpinLockLock(t) \/ RwCritical(t) \/ SpinLockUnlock(t)
SpecRwLock == InitRwLock /\ [][NextRwLock]_vars

\* the same threads under fair scheduling: a thread inside an operation keeps
\* taking its steps and wins the exchange on flag_ if it can win it again and
\* again; a thread that holds the lock calls its unlock
RwStep(t) == SpinLockLock(t) \/ RwCritical(t) \/ SpinLockUnlock(t)
RwUnlockCall(t) == rw_holds[t] # "none" /\ RwCall(t)
SpecRwLockFair ==
  /\ InitRwLock /\ [][NextRwLock]_vars
  /\ \A t \in LockThreads : SF_vars(RwStep(t)) /\ WF_vars(RwUnlockCall(t))

\* frames recorded on one Canvas whose user takes scratch from the frame arena
InitArena == SemIdle /\ GpuIdle /\ CanvasInit /\ SsboInit /\ SlotInit /\ RwInit /\ PathIdle /\ RRectIdle
  /\ TextIdle /\ SchedIdle /\ FmtIdle /\ ClosureIdle /\ NgonIdle /\ FutIdle /\ TickIdle /\ AssetIdle
  /\ SpinIdle /\ TextDrawIdle /\ StaggerIdle /\ RRectVtxIdle
NextArena == BeginRecording \/ CanvasAlloc \/ AddPass \/ EndRecording
SpecArena == InitArena /\ [][NextArena]_vars

\* one call of path::triangulate_stroke
InitStroke ==
  SemIdle /\ GpuIdle /\ CanvasInit /\ SsboInit /\ SlotInit /\ RwInit /\ PathInit("stroke") /\ RRectIdle
  /\ TextIdle /\ SchedIdle /\ FmtIdle /\ ClosureIdle /\ NgonIdle /\ FutIdle /\ TickIdle /\ AssetIdle
  /\ SpinIdle /\ TextDrawIdle /\ StaggerIdle /\ RRectVtxIdle
NextStroke == StrokeCall \/ StrokeLoop
SpecStroke == InitStroke /\ [][NextStroke]_vars

\* one call of path::triangulate_convex
InitConvex ==
  SemIdle /\ GpuIdle /\ CanvasInit /\ SsboInit /\ SlotInit /\ RwInit /\ PathInit("convex") /\ RRectIdle
  /\ TextIdle /\ SchedIdle /\ FmtIdle /\ ClosureIdle /\ NgonIdle /\ FutIdle /\ TickIdle /\ AssetIdle
  /\ SpinIdle /\ TextDrawIdle /\ StaggerIdle /\ RRectVtxIdle
NextConvex == ConvexCall \/ ConvexLoop
SpecConvex == InitConvex /\ [][NextConvex]_vars

\* one call of path::rrect
InitRRect ==
  SemIdle /\ GpuIdle /\ CanvasInit /\ SsboInit /\ SlotInit /\ RwInit /\ PathIdle /\ RRectInit
  /\ TextIdle /\ SchedIdle /\ FmtIdle /\ ClosureIdle /\ NgonIdle /\ FutIdle /\ TickIdle /\ AssetIdle
  /\ SpinIdle /\ TextDrawIdle /\ StaggerIdle /\ RRectVtxIdle
NextRRect == RRectCall
SpecRRect == InitRRect /\ [][NextRRect]_vars

\* path::rrect and path::brect called with the same vector
InitBRect ==
  SemIdle /\ GpuIdle /\ CanvasInit /\ SsboInit /\ SlotInit /\ RwInit /\ PathIdle /\ BRectInit
  /\ TextIdle /\ SchedIdle /\ FmtIdle /\ ClosureIdle /\ NgonIdle /\ FutIdle /\ TickIdle /\ AssetIdle
  /\ SpinIdle /\ TextDrawIdle /\ StaggerIdle /\ RRectVtxIdle
NextBRect == RRectCall \/ BRectCall
SpecBRect == InitBRect /\ [][NextBRect]_vars

\* recordings on one Canvas
InitCanvas == SemIdle /\ GpuIdle /\ CanvasInit /\ SsboInit /\ SlotInit /\ RwInit /\ PathIdle /\ RRectIdle
  /\ TextIdle /\ SchedIdle /\ FmtIdle /\ ClosureIdle /\ NgonIdle /\ FutIdle /\ TickIdle /\ AssetIdle
  /\ SpinIdle /\ TextDrawIdle /\ StaggerIdle /\ RRectVtxIdle
NextCanvas ==
  \/ BeginRecording \/ Clip \/ DrawRRect \/ DrawNgon
  \/ DrawSquircle \/ DrawTriangles \/ DrawLine
  \/ AddPass \/ Blur \/ EndRecording
SpecCanvas == InitCanvas /\ [][NextCanvas]_vars

\* one call of layout
InitText ==
  SemIdle /\ GpuIdle /\ CanvasInit /\ SsboInit /\ SlotInit /\ RwInit /\ PathIdle /\ RRectIdle
  /\ TextInit /\ SchedIdle /\ FmtIdle /\ ClosureIdle /\ NgonIdle /\ FutIdle /\ TickIdle /\ AssetIdle
  /\ SpinIdle /\ TextDrawIdle /\ StaggerIdle /\ RRectVtxIdle
NextText == LayoutCall \/ LayoutParagraph
SpecText == InitText /\ [][NextText]_vars

\* tasks scheduled on the worker threads of the Scheduler
InitSched ==
  SemIdle /\ GpuIdle /\ CanvasInit /\ SsboInit /\ SlotInit /\ RwInit /\ PathIdle /\ RRectIdle
  /\ TextIdle /\ SchedInit /\ FmtIdle /\ ClosureIdle /\ NgonIdle /\ FutIdle /\ TickIdle /\ AssetIdle
  /\ SpinIdle /\ TextDrawIdle /\ StaggerIdle /\ RRectVtxIdle
NextSched ==
  \E t \in Tasks : \E w \in Workers :
    ScheduleWorker(t) \/ WorkerPoll(w, t) \/ WorkerTask(w, t)
SpecSched == InitSched /\ [][NextSched]_vars

\* one call of GpuContext::init, up to the choice of the formats
InitFmt ==
  SemIdle /\ GpuIdle /\ CanvasInit /\ SsboInit /\ SlotInit /\ RwInit /\ PathIdle /\ RRectIdle
  /\ TextIdle /\ SchedIdle /\ FmtInit /\ ClosureIdle /\ NgonIdle /\ FutIdle /\ TickIdle /\ AssetIdle
  /\ SpinIdle /\ TextDrawIdle /\ StaggerIdle /\ RRectVtxIdle
NextFmt == GpuInitCall \/ HdrScan \/ SdrScan \/ DsScan \/ SelectFormats
SpecFmt == InitFmt /\ [][NextFmt]_vars

\* pass closures over the frames and the end of a Canvas
InitClosure ==
  SemIdle /\ GpuIdle /\ CanvasInit /\ SsboInit /\ SlotInit /\ RwInit /\ PathIdle /\ RRectIdle
  /\ TextIdle /\ SchedIdle /\ FmtIdle /\ ClosureInit /\ NgonIdle /\ FutIdle /\ TickIdle /\ AssetIdle
  /\ SpinIdle /\ TextDrawIdle /\ StaggerIdle /\ RRectVtxIdle
NextClosure == PassAddLambda \/ PassRender \/ PassReset \/ PassCanvasUninit
SpecClosure == InitClosure /\ [][NextClosure]_vars

\* ngon shapes drawn in one recording
InitNgon ==
  SemIdle /\ GpuIdle /\ CanvasInit /\ SsboInit /\ SlotInit /\ RwInit /\ PathIdle /\ RRectIdle
  /\ TextIdle /\ SchedIdle /\ FmtIdle /\ ClosureIdle /\ NgonInit /\ FutIdle /\ TickIdle /\ AssetIdle
  /\ SpinIdle /\ TextDrawIdle /\ StaggerIdle /\ RRectVtxIdle
NextNgon == NgonBRect \/ NgonSquircle \/ NgonTriangles \/ NgonTrianglesIndexed \/ NgonLine
SpecNgon == InitNgon /\ [][NextNgon]_vars

\* executor threads and a user thread on one future
InitFuture ==
  SemIdle /\ GpuIdle /\ CanvasInit /\ SsboInit /\ SlotInit /\ RwInit /\ PathIdle /\ RRectIdle
  /\ TextIdle /\ SchedIdle /\ FmtIdle /\ ClosureIdle /\ NgonIdle /\ FutInit /\ TickIdle /\ AssetIdle
  /\ SpinIdle /\ TextDrawIdle /\ StaggerIdle /\ RRectVtxIdle
NextFuture ==
  \/ \E e \in Executors :
       \/ NotifyInfo(e) \/ NotifyTermNoResult(e) \/ CompleteWithResult(e)
       \/ CompleteSetter(e) \/ CompleteStore(e)
  \/ UserCall \/ UserLoadInfo
SpecFuture == InitFuture /\ [][NextFuture]_vars

\* one tick of the schedule timeline
InitTick ==
  SemIdle /\ GpuIdle /\ CanvasInit /\ SsboInit /\ SlotInit /\ RwInit /\ PathIdle /\ RRectIdle
  /\ TextIdle /\ SchedIdle /\ FmtIdle /\ ClosureIdle /\ NgonIdle /\ FutIdle /\ TickInit /\ AssetIdle
  /\ SpinIdle /\ TextDrawIdle /\ StaggerIdle /\ RRectVtxIdle
NextTick == TickCapture \/ TickPoll \/ TickSortPartition \/ TickSelect \/ TickPush
SpecTick == InitTick /\ [][NextTick]_vars

\* the scheduler: tick after tick, with the threads of the slots running the
\* tasks pushed to them; the scheduler thread and the slot threads keep
\* running, and a running task asked to suspend does so
InitTicks ==
  SemIdle /\ GpuIdle /\ CanvasInit /\ SsboInit /\ SlotInit /\ RwInit /\ PathIdle /\ RRectIdle
  /\ TextIdle /\ SchedIdle /\ FmtIdle /\ ClosureIdle /\ NgonIdle /\ FutIdle /\ TicksInit
  /\ AssetIdle /\ SpinIdle /\ TextDrawIdle /\ StaggerIdle /\ RRectVtxIdle
NextTicks ==
  \/ TickCapture \/ TickPoll \/ TickSortPartition \/ TickSelect \/ TickPush
  \/ TickBegin \/ SlotTakePending \/ TaskYields \/ TaskCompletes
SpecTicks ==
  /\ InitTicks /\ [][NextTicks]_vars
  /\ WF_vars(TickCapture \/ TickPoll \/ TickSortPartition \/ TickSelect \/ TickPush)
  /\ WF_vars(TickBegin)
  /\ SF_vars(SlotTakePending)
  /\ SF_vars(TaskYields)

\* the asset manager, its worker thread and the holders of handles
InitAsset ==
  SemIdle /\ GpuIdle /\ CanvasInit /\ SsboInit /\ SlotInit /\ RwInit /\ PathIdle /\ RRectIdle
  /\ TextIdle /\ SchedIdle /\ FmtIdle /\ ClosureIdle /\ NgonIdle /\ FutIdle /\ TickIdle
  /\ AssetInit /\ SpinIdle /\ TextDrawIdle /\ StaggerIdle /\ RRectVtxIdle
NextAsset ==
  \/ \E tag \in AssetTags : AssetAdd(tag) \/ AssetGet(tag) \/ AssetHandleDrop(tag)
  \/ AssetWorkerPop \/ AssetWorkerComplete \/ AssetTick
SpecAsset == InitAsset /\ [][NextAsset]_vars

\* threads using one SpinLock with lock, try_lock and unlock
InitSpin ==
  SemIdle /\ GpuIdle /\ CanvasInit /\ SsboInit /\ SlotInit /\ RwInit /\ PathIdle /\ RRectIdle
  /\ TextIdle /\ SchedIdle /\ FmtIdle /\ ClosureIdle /\ NgonIdle /\ FutIdle /\ TickIdle
  /\ AssetIdle /\ SpinInit /\ TextDrawIdle /\ StaggerIdle /\ RRectVtxIdle
NextSpin ==
  \E t \in LockThreads : SpinTryLock(t) \/ SpinLockAcquire(t) \/ SpinRelease(t)
SpecSpin == InitSpin /\ [][NextSpin]_vars

\* one pass of Canvas::text over the lines of a layout
InitTextDraw ==
  SemIdle /\ GpuIdle /\ CanvasInit /\ SsboInit /\ SlotInit /\ RwInit /\ PathIdle /\ RRectIdle
  /\ TextIdle /\ SchedIdle /\ FmtIdle /\ ClosureIdle /\ NgonIdle /\ FutIdle /\ TickIdle
  /\ AssetIdle /\ SpinIdle /\ TextDrawInit /\ StaggerIdle /\ RRectVtxIdle
NextTextDraw == TextDrawLine
SpecTextDraw == InitTextDraw /\ [][NextTextDraw]_vars

\* one call of stagger_grid_delay
InitStagger ==
  SemIdle /\ GpuIdle /\ CanvasInit /\ SsboInit /\ SlotInit /\ RwInit /\ PathIdle /\ RRectIdle
  /\ TextIdle /\ SchedIdle /\ FmtIdle /\ ClosureIdle /\ NgonIdle /\ FutIdle /\ TickIdle
  /\ AssetIdle /\ SpinIdle /\ TextDrawIdle /\ StaggerInit /\ RRectVtxIdle
NextStagger == StaggerGridDelay
SpecStagger == InitStagger /\ [][NextStagger]_vars

\* one call of path::rrect, for the vertices it appends
InitRRectVtx ==
  SemIdle /\ GpuIdle /\ CanvasInit /\ SsboInit /\ SlotInit /\ RwInit /\ PathIdle /\ RRectIdle
  /\ TextIdle /\ SchedIdle /\ FmtIdle /\ ClosureIdle /\ NgonIdle /\ FutIdle /\ TickIdle
  /\ AssetIdle /\ SpinIdle /\ TextDrawIdle /\ StaggerIdle /\ RRectVtxInit
NextRRectVtx == RRectVtxCall \/ RRectVtxCorner
SpecRRectVtx == InitRRectVtx /\ [][NextRRectVtx]_vars

-----------------------------------------------------------------------------
(* GpuContext: properties *)

\* begin_frame of frame f has run
BegunFrame(f) == frame_current > f \/ (frame_current = f /\ in_frame)

\* the objects released between begin_frame and end_frame of some frame
ReleasedInFrame == {o \in ObjectIds : objects[o].released /\ objects[o].in_frame}

\* C1 (as stated): an object released during frame N is destroyed exactly once,
\* and not before begin_frame of frame N + B.
C1_DestroyedOnceAfterB ==
  \A o \in ReleasedInFrame :
    /\ objects[o].destroyed <= 1
    /\ objects[o].destroyed >= 1
         => objects[o].destroy_frame >= objects[o].frame + buffering
    /\ BegunFrame(objects[o].frame + buffering) => objects[o].destroyed = 1

\* C1 (amended): an object released between begin_frame and end_frame of
\* frame N is destroyed exactly once: by begin_frame of frame N + B, unless
\* idle_reclaim() drained its queue before; a destruction made by begin_frame
\* is never earlier than frame N + B.
C1_DestroyedOnceByRingOrIdle ==
  \A o \in ReleasedInFrame :
    /\ objects[o].destroyed <= 1
    /\ (objects[o].destroyed >= 1 /\ objects[o].destroyed_by = "begin_frame")
         => objects[o].destroy_frame = objects[o].frame + buffering
    /\ (objects[o].destroyed = 0 /\ objects[o].frame + buffering > frame_current)
         => \E i \in RingSlots :
              \E k \in 1..Len(released_objects[i]) : released_objects[i][k] = o
    /\ BegunFrame(objects[o].frame + buffering) => objects[o].destroyed = 1

\* an object released in frame N was destroyed by begin_frame of frame N + B,
\* with more than one frame in flight
C1_Witness ==
  /\ buffering >= 2
  /\ \E o \in ReleasedInFrame :
       /\ objects[o].destroyed = 1
       /\ objects[o].destroyed_by = "begin_frame"
       /\ objects[o].destroy_frame = objects[o].frame + buffering

-----------------------------------------------------------------------------
(* Canvas: properties *)

\* the passes flushed from batches of the given type, in order
BatchPasses(type) == SelectSeq(passes, LAMBDA p : p.name = type)

\* the object ranges of a sequence of batch passes are non-empty, consecutive
\* and cover 0 .. n - 1
RangesCover(ps, n) ==
  /\ \A i \in 1..Len(ps) : ps[i].batch.span >= 1
  /\ \A i \in 1..Len(ps) :
       ps[i].batch.offset =
         IF i = 1 THEN 0 ELSE ps[i - 1].batch.offset + ps[i - 1].batch.span
  /\ n = IF ps = <<>> THEN 0
         ELSE ps[Len(ps)].batch.offset + ps[Len(ps)].batch.span

\* C2: after end_recording the number of passes equals the number of
\* (batch_type, clip) transitions plus the number of add_pass / blur calls.
C2_PassCount ==
  last_op = "end_recording" => Len(passes) = transitions + explicit_passes

\* C4: after end_recording the object ranges of the RRect passes are
\* consecutive, disjoint and cover rrect_params exactly, and likewise the Ngon
\* passes over ngon_params.
C4_RangesCoverParams ==
  last_op = "end_recording" =>
    /\ RangesCover(BatchPasses("RRect"), rrect_params)
    /\ RangesCover(BatchPasses("Ngon"), ngon_params)

\* C5: end_recording returns; with an active batch it appends exactly one pass
\* and leaves batch.type = None, with no active batch it appends nothing.
C5_EndRecordingFlushes ==
  last_op = "end_recording" =>
    /\ canvas_status = "ok"
    /\ batch.type = "None"
    /\ Len(passes) = pre_passes + (IF pre_batch_type # "None" THEN 1 ELSE 0)

-----------------------------------------------------------------------------
(* Semaphore: properties *)

\* C3 (as stated): concurrent signal calls all return in every interleaving,
\* and once they have returned get_stage() = min(max(v_i), num_stages).
C3_AllSignalsReturn ==
  /\ ~aborted
  /\ (AllReturned /\ nSig > 0) => get_stage = Min(sigMax, num_stages)

\* C3 (amended): successive get_stage() observations never decrease, and
\* whenever every signal call issued so far has returned (none hit the fatal
\* CHECK) get_stage() = min(max(v_i), num_stages).
C3_SignalMonotoneConverges ==
  /\ [][stage' >= stage]_vars
  /\ []((AllReturned /\ ~aborted /\ nSig > 0)
          => get_stage = Min(sigMax, num_stages))

\* two or more signals have returned and the stage is their clamped maximum
C3_Witness ==
  /\ AllReturned /\ ~aborted /\ nSig >= 2
  /\ stage > 0 /\ stage = Min(sigMax, num_stages)

\* the scenario of C6: exactly one signal(v), v < n, and one increment(inc),
\* inc >= n, have been issued on a fresh Semaphore
C6_Scenario ==
  /\ nSig = 1 /\ nInc = 1
  /\ sigMax < num_stages
  /\ incSum >= num_stages

\* C6 (as stated): signal(v), v < n, racing increment(inc), inc >= n: both
\* calls return in every interleaving and afterwards the stage is n.
C6_BothReturn ==
  C6_Scenario =>
    /\ ~aborted
    /\ AllReturned => (get_stage = num_stages /\ is_completed)

\* C6 (amended): in that race increment always returns; signal returns unless
\* it observes a stage above v (increment's store landed first), in which case
\* its CHECK aborts the process; whenever both have returned the stage is n
\* and the semaphore is completed.
C6_CompletedWhenBothReturn ==
  C6_Scenario =>
    /\ (AllReturned /\ ~aborted) => (get_stage = num_stages /\ is_completed)
    /\ aborted => \E t \in Threads :
                    pc[t] = "aborted" /\ current[t] > arg[t]
                    /\ stage = num_stages

\* both calls of the C6 scenario have returned, signal's store having landed
C6_Witness ==
  /\ C6_Scenario /\ AllReturned /\ ~aborted
  /\ sigMax >= 1 /\ is_completed

\* C7: once is_completed() is true it stays true under signal, increment and
\* reset.
C7_CompletedForever == [][is_completed => is_completed']_vars

\* C8: 0 <= stage <= num_stages in every state reached by signal and
\* increment calls with arbitrary u64 arguments.
C8_StageWithinBounds == 0 <= stage /\ stage <= num_stages

\* an increment whose current + inc overflowed u64 and saturated at num_stages
C8_Witness ==
  \E t \in Threads :
    /\ pc[t] = "increment" /\ current[t] > 0
    /\ current[t] + arg[t] > U64_MAX
    /\ target[t] = num_stages

\* C9: after all concurrent increments have returned the stage is
\* min(s + inc_1 + .. + inc_k, num_stages).
C9_NoLostIncrement ==
  AllReturned => get_stage = Min(stage0 + incSum, num_stages)

\* at least two increments have returned on a semaphore that started at s > 0
C9_Witness ==
  /\ AllReturned /\ nInc >= 2 /\ incSum >= 2 /\ stage0 > 0
  /\ stage = Min(stage0 + incSum, num_stages)

\* C10: a signal iteration that observes a stage greater than its clamped
\* next aborts the process and leaves the stage unchanged; no signal iteration
\* lowers the stage.
C10_SignalAbortsNeverLowers ==
  [][\A t \in Threads :
       SignalCAS(t) =>
         /\ (stage > arg[t]) => (aborted' /\ stage' = stage)
         /\ stage' >= stage]_vars

\* a signal has aborted after observing a stage above its clamped next
C10_Witness ==
  /\ aborted
  /\ \E t \in Threads : pc[t] = "aborted" /\ current[t] > arg[t]
                        /\ stage = current[t]

-----------------------------------------------------------------------------
(* GpuContext and SSBO: properties of destruction *)

\* C11: every backend destructor call on a GPU object is made while draining a
\* release queue (begin_frame or idle_reclaim); no owner destroys directly.
C11_OnlyQueueDestroys ==
  \A o \in ObjectIds :
    objects[o].destroyed > 0 =>
      objects[o].destroyed_by \in {"begin_frame", "idle_reclaim"}

\* C12: when idle_reclaim() returns, every object that was released has been
\* destroyed exactly once and all B release queues are empty.
C12_IdleReclaimDrainsAll ==
  [][GpuIdleReclaim =>
       /\ \A i \in RingSlots : released_objects'[i] = <<>>
       /\ \A o \in ObjectIds : objects'[o].released => objects'[o].destroyed = 1]_vars

\* idle_reclaim destroyed objects that sat in two different queues, and an
\* earlier begin_frame had destroyed another one
C12_Witness ==
  /\ buffering >= 2
  /\ \A i \in RingSlots : released_objects[i] = <<>>
  /\ \E o1, o2, o3 \in ObjectIds :
       /\ objects[o1].destroyed_by = "idle_reclaim"
       /\ objects[o2].destroyed_by = "idle_reclaim"
       /\ objects[o1].frame + 1 = objects[o2].frame
       /\ objects[o1].destroy_frame = objects[o2].frame
       /\ objects[o3].destroyed_by = "begin_frame"

-----------------------------------------------------------------------------
(* Sampler cache and slot bitset: properties *)

\* the indices whose bit is clear in bitset s
ClearSlots(s) == {i \in SlotIds : ~span_get_bit(s, i)}

\* C13: the calls of create_sampler(d), interleaved with calls for other
\* descriptors, all return the same {sampler, slot}, create one underlying
\* sampler and allocate one sampler slot for d.
C13_SamplerCacheIdempotent ==
  \A d \in SamplerDescs :
    (sampler_hist[d].calls >= 1 /\ slot_status = "ok") =>
      /\ Cardinality(sampler_hist[d].returns) = 1
      /\ sampler_hist[d].created = 1
      /\ sampler_hist[d].allocated = 1
      /\ \A e \in SamplerDescs :
           (e # d /\ sampler_hist[e].calls >= 1) =>
             sampler_hist[e].returns \cap sampler_hist[d].returns = {}

\* two descriptors were each asked for more than once, in turns
C13_Witness ==
  /\ slot_status = "ok"
  /\ \E d, e \in SamplerDescs :
       /\ d # e
       /\ sampler_hist[d].calls = MaxSamplerCalls
       /\ sampler_hist[e].calls >= 2
       /\ \E r \in sampler_hist[d].returns : r.slot > 0

\* C14: alloc returns the lowest index whose bit is clear, within [0, N), and
\* sets it; no index is handed out twice without a release of it in between;
\* when every bit is set the call aborts instead of returning an index.
C14_LowestClearSlot ==
  /\ slot_last.op = "alloc" =>
       /\ slot_last.index \in SlotIds
       /\ slot_last.index \in ClearSlots(slot_last.pre)
       /\ \A j \in ClearSlots(slot_last.pre) : slot_last.index <= j
       /\ slot_last.index \notin slot_last.pre_held
       /\ ClearSlots(sampler_slots) = ClearSlots(slot_last.pre) \ {slot_last.index}
  /\ slot_last.op = "abort" <=> slot_status = "out_of_slots"
  /\ slot_last.op = "abort" => ClearSlots(slot_last.pre) = {}
  /\ (slot_last.op \in {"alloc", "abort"} /\ ClearSlots(slot_last.pre) = {}) =>
       slot_status = "out_of_slots"

\* a slot below others still held was released and handed out again
C14_Witness ==
  /\ slot_last.op = "alloc"
  /\ \E j \in slot_last.pre_held : j > slot_last.index
  /\ slot_last.index >= SlotWordBits

\* every slot was taken and one more was asked for
C14_WitnessFull == slot_last.op = "abort"

-----------------------------------------------------------------------------
(* ReadWriteLock: properties *)

\* C15: a thread holding the write lock excludes all others: no other writer
\* and no reader holds the lock at the same time.
C15_WriterExcludesAll ==
  \A t \in LockThreads :
    rw_holds[t] = "write" =>
      \A u \in LockThreads \ {t} : rw_holds[u] = "none"

\* one thread holds the write lock while a reader and a writer are waiting in
\* their retry loops
C15_Witness ==
  \E t, u, v \in LockThreads :
    /\ rw_holds[t] = "write"
    /\ rw_pc[u] = <<"lock_read", "unlock">> /\ ~rw_granted[u]
    /\ rw_pc[v] = <<"lock_write", "lock">>

\* several readers hold the lock together
C15_WitnessReaders ==
  \E t, u \in LockThreads : t # u /\ rw_holds[t] = "read" /\ rw_holds[u] = "read"

-----------------------------------------------------------------------------
(* Canvas: draw calls and params *)

\* C16: after end_recording, rrect_params.len + ngon_params.len equals the
\* number of shape draw calls made since begin_recording minus the calls made
\* with degenerate input (too few points or segments), which are no-ops.
C16_ParamsCountDraws ==
  last_op = "end_recording" =>
    rrect_params + ngon_params = draw_hist.calls - draw_hist.degenerate

\* C17: every reset() (hence every begin_recording) reclaims the frame arena:
\* the arena memory in use at the start of a frame is zero.
C17_ArenaEmptyAtFrameStart ==
  last_op = "begin_recording" => arena_used(frame_arena) = 0

-----------------------------------------------------------------------------
(* Triangulation: properties *)

\* the positions of the index vector appended by the call
AppendedIndices == first_index..(Len(indices) - 1)

C19_ConvexFan ==
  path_fn = "convex" =>
    /\ \A k \in idx_writes : k \in AppendedIndices
    /\ path_pc = "done" =>
         IF num_points >= 3
           THEN /\ Len(indices) = first_index + 3 * (num_points - 2)
                /\ idx_writes = AppendedIndices
                /\ \A v \in 1..(num_points - 2) :
                     /\ indices[first_index + 3 * (v - 1) + 1] = first_vertex
                     /\ indices[first_index + 3 * (v - 1) + 2] = first_vertex + v
                     /\ indices[first_index + 3 * (v - 1) + 3] = first_vertex + v + 1
                /\ \A k \in AppendedIndices :
                     /\ first_vertex <= indices[k + 1]
                     /\ indices[k + 1] < first_vertex + num_points
           ELSE Len(indices) = first_index /\ idx_writes = {}

\* a fan of several triangles appended after other geometry
C19_Witness ==
  /\ path_fn = "convex" /\ path_pc = "done"
  /\ num_points = MaxPathPoints
  /\ first_vertex > 0 /\ first_index > 0
  /\ loop_v = num_points - 1

-----------------------------------------------------------------------------
(* path::rrect: properties *)

\* a + b <= 2.0f, as f32 values
SumAtMostTwo(a, b) == ~a.nan /\ ~b.nan /\ a.v + b.v <= Two.v

-----------------------------------------------------------------------------
(* path::brect: properties *)

\* C21: for every input vector the clamped slant values path::brect uses equal
\* the clamped radii path::rrect computes for that same vector.
C21_BRectClampsAsRRect ==
  (rrect_clamped # <<>> /\ brect_clamped # <<>>) =>
    brect_clamped = rrect_clamped

-----------------------------------------------------------------------------
(* Text layout: properties *)

\* the number of paragraph separators of a text
ParagraphBreaks(text) == Cardinality({i \in 1..Len(text) : text[i].ch = Newline})

\* C22: for any TextBlock (empty text and text ending in a paragraph break
\* included) laid out with max_width = infinity, the layout has exactly
\* 1 + (number of paragraph breaks) lines.
C22_LinesPerParagraph ==
  (tl_pc = "done" /\ tl_fonts /\ tl_max.inf) =>
    Len(lines) = 1 + ParagraphBreaks(tl_text)

\* the segments of a line, as stored after the layout
LineSegments(ln) ==
  SubSeq(run_segments, ln.run_segments_offset + 1,
         ln.run_segments_offset + ln.nrun_segments)
\* segments in logical order: by the offset of their text
InLogicalOrder(segs) ==
  \A i \in 1..(Len(segs) - 1) : segs[i].text.offset < segs[i + 1].text.offset

\* C23: reordering the reordered segments of a line again restores the
\* original (logical) order of its runs, whatever their levels.
C23_ReorderInvolution ==
  \A k \in 1..Len(lines) :
    /\ InLogicalOrder(Reorder(LineSegments(lines[k])))
    /\ Reorder(Reorder(LineSegments(lines[k]))) = LineSegments(lines[k])

\* a line of at least three segments, two of them a reversed right-to-left run
C23_Witness ==
  \E k \in 1..Len(lines) :
    /\ lines[k].nrun_segments >= 3
    /\ ~InLogicalOrder(LineSegments(lines[k]))
    /\ \E i \in 1..lines[k].nrun_segments :
         LineSegments(lines[k])[i].direction = LeftToRight

-----------------------------------------------------------------------------
(* Scheduler: properties *)

\* positions of the calls of op in a task's log
CallsOf(log, op) == {i \in 1..Len(log) : log[i].op = op}

\* C24: init(block) is called exactly once and before any poll or task call;
\* task(block) is called only after poll(block) returned true; while task
\* returns true the task is re-queued with the same block; after the first
\* task call that returns false uninit(block) is called exactly once and
\* neither poll nor task is called on that block again.
C24_TaskContract ==
  \A t \in Tasks :
    LET log == task_log[t] IN
    /\ log # <<>> => CallsOf(log, "init") = {1}
    /\ \A i \in 1..Len(log) : log[i].block = log[1].block
    /\ \A i \in CallsOf(log, "task") :
         /\ i > 1 /\ log[i - 1].op = "poll" /\ log[i - 1].result
         /\ log[i].result =>
              /\ i = Len(log) => (task_state[t] = "queued" /\ task_block[t] = log[1].block)
              /\ i < Len(log) => log[i + 1].op = "poll"
         /\ ~log[i].result =>
              /\ i + 1 = Len(log)
              /\ log[i + 1].op = "uninit"
    /\ \A i \in CallsOf(log, "uninit") :
         /\ i > 1 /\ log[i - 1].op = "task" /\ ~log[i - 1].result
         /\ task_state[t] = "freed"
    /\ Cardinality(CallsOf(log, "uninit")) <= 1

\* a task that ran twice and was uninitialized, while another task that was
\* skipped once is queued
C24_Witness ==
  \E t \in Tasks :
    /\ Cardinality(CallsOf(task_log[t], "task")) = 2
    /\ CallsOf(task_log[t], "uninit") # {}
    /\ \E u \in Tasks \ {t} :
         /\ task_state[u] = "queued"
         /\ \E i \in CallsOf(task_log[u], "poll") : ~task_log[u][i].result

-----------------------------------------------------------------------------
(* GpuContext::init: properties of the format selection *)

\* the first format of a list that has the features; the size of the list if none
FirstQualifying(features, n) ==
  IF \E i \in 0..(n - 1) : features[i]
  THEN CHOOSE i \in 0..(n - 1) : features[i] /\ \A j \in 0..(i - 1) : ~features[j]
  ELSE n
HdrQualifies == FirstQualifying(hdr_features, NumHdrFormats) < NumHdrFormats
SdrQualifies == FirstQualifying(sdr_features, NumSdrFormats) < NumSdrFormats
DsQualifies == FirstQualifying(ds_features, NumDsFormats) < NumDsFormats
\* a color format the call can use: an HDR one if HDR is requested, or an SDR one
ColorQualifies == (p_use_hdr /\ HdrQualifies) \/ SdrQualifies

C25_WitnessAbort ==
  /\ fmt_pc = "abort"
  /\ fmt_abort = "depth_stencil"
  /\ ColorQualifies

-----------------------------------------------------------------------------
(* Canvas: properties of the pass closures *)

\* C26: every pass closure appended to passes has its destructor invoked
\* exactly once, at the next reset() or at Canvas::uninit(), and neither its
\* task nor its destructor is invoked after the frame-arena memory holding the
\* closure was freed or reclaimed.
C26_ClosureDestroyedOnceWhileLive ==
  \A i \in Closures :
    /\ closure[i].uninits <= 1
    /\ (closure[i].mem # "none" /\ i \notin InPasses(pass_closures)) =>
         closure[i].uninits = 1
    /\ i \in InPasses(pass_closures) => closure[i].uninits = 0
    /\ ~closure[i].stale

-----------------------------------------------------------------------------
(* Canvas: properties of the recorded ngon geometry *)

\* C27: for every NgonParam recorded by brect, squircle, triangles (both
\* overloads) or line, the matching ngon_index_counts entry equals the number
\* of indices that call appended to ngon_indices, and
\* [first_index, first_index + count) lies within ngon_indices; triangles(desc,
\* points) with any |points| >= 3 records such an entry without aborting.
C27_IndexCountsMatch ==
  /\ ng_status # "check_failed"
  /\ Len(ng_index_counts) = Len(ng_params)
  /\ \A k \in 1..Len(ng_params) :
       /\ ng_index_counts[k] = ng_params[k].appended
       /\ ng_params[k].first_index + ng_index_counts[k] <= ng_indices

-----------------------------------------------------------------------------
(* stx::FutureState: properties *)

\* C28: the terminal status leaves Pending at most once: under any
\* interleaving of cancel, force-cancel and complete notifications exactly one
\* of Canceled, ForceCanceled or Completed is established, and every status
\* fetched after a done status was observed is that same status, whatever
\* informational or terminal notifications come later.
C28_TerminalStatusOnce ==
  /\ term_hist \in {<<>>, <<Canceled>>, <<ForceCanceled>>, <<Completed>>,
                    <<Completing>>, <<Completing, Completed>>}
  /\ first_done # NoStatus =>
       /\ fetched = first_done
       /\ term = first_done

\* the user observed Canceled, then fetched again after a later completion
\* attempt and an informational notification
C28_Witness ==
  /\ first_done = Canceled
  /\ fetched = Canceled
  /\ info # "Scheduled"
  /\ fut_calls = MaxFutureCalls
  /\ user_pc = "idle"

\* C29: the shared result storage is written at most once across all executor
\* threads; copy_result / move_result return Ok only after that write has
\* completed (status Completed), Err(Canceled) for a canceled or
\* force-canceled future and Err(Pending) in every other state.
C29_ResultWrittenOnce ==
  /\ storage_writes <= 1
  /\ Cardinality(storage_writing) <= 1
  /\ fut_result.kind = "Ok" => (fut_result.term = Completed /\ fut_result.written)
  /\ fut_result.kind # "none" =>
       /\ fut_result.term = Completed => fut_result.kind = "Ok"
       /\ fut_result.term \in {Canceled, ForceCanceled} => fut_result.kind = "Err(Canceled)"
       /\ fut_result.term \in {Pending, Completing} => fut_result.kind = "Err(Pending)"

\* a result was fetched as Ok after one executor won the completion and the
\* other's attempt failed
C29_Witness ==
  /\ fut_result.kind = "Ok"
  /\ storage_writes = 1
  /\ fut_calls >= 3

\* a copy made while an executor was inside the setter returned Err(Pending)
C29_WitnessCompleting ==
  /\ fut_result.kind = "Err(Pending)"
  /\ fut_result.term = Completing

-----------------------------------------------------------------------------
(* ScheduleTimeline::tick: properties *)

\* C30: in a single tick a selected task is pushed to a thread slot only if it
\* is not already executing or pending on any slot, each slot receives at most
\* one pushed task, no task is pushed to more than one slot, and a push is made
\* only to a slot whose captured query reported can_push.
C30_PushesOfATick ==
  /\ \A k \in 1..Len(pushed) :
       /\ \E i \in 1..num_selected : starvation_timeline[i].id = pushed[k][1]
       /\ \A s \in 1..Len(thread_slots_capture) :
            /\ thread_slots_capture[s].executing_task # pushed[k][1]
            /\ thread_slots_capture[s].pending_task # pushed[k][1]
       /\ thread_slots_capture[pushed[k][2] + 1].can_push
  /\ \A k, l \in 1..Len(pushed) :
       k # l => (pushed[k][1] # pushed[l][1] /\ pushed[k][2] # pushed[l][2])

\* two tasks were pushed in one tick
C30_Witness ==
  /\ tick_pc = "done"
  /\ Len(pushed) = 2

\* a selected task was not pushed because it is on a slot already, while a
\* slot could take a task
C30_WitnessOnSlot ==
  /\ tick_pc = "done"
  /\ num_selected >= 1
  /\ pushed = <<>>
  /\ \E s \in 1..Len(thread_slots_capture) : thread_slots_capture[s].can_push

\* C32: after sort_and_partition_timeline the tasks whose last polled status
\* is not Suspended precede the Suspended ones and are ordered by starvation
\* duration, descending: the earliest last_preempt_timepoint comes first, so
\* element 0 is the most starved task.
C32_MostStarvedFirst ==
  tick_pc = "window" =>
    /\ Starving(starvation_timeline) = 1..Cardinality(Starving(starvation_timeline))
    /\ \A i, j \in Starving(starvation_timeline) :
         i < j => starvation_timeline[i].last_preempt_timepoint
                    <= starvation_timeline[j].last_preempt_timepoint

\* C33: when poll_tasks sees a task whose status polled before was not
\* ForceSuspended and whose fetched status is ForceSuspended, it sets the
\* task's last_preempt_timepoint to the present timepoint, and leaves it
\* unchanged otherwise.
C33_PreemptTimepointUpdated ==
  [][tick_pc = "poll" =>
       \A i \in 1..Len(starvation_timeline) :
         \A j \in 1..Len(starvation_timeline') :
           starvation_timeline'[j].id = starvation_timeline[i].id =>
             starvation_timeline'[j].last_preempt_timepoint =
               IF /\ starvation_timeline[i].last_status_poll # "ForceSuspended"
                  /\ promise_status[starvation_timeline[i].id] = "ForceSuspended"
               THEN PresentTimepoint
               ELSE starvation_timeline[i].last_preempt_timepoint]_vars

\* the task is in the timeline, neither suspended by the user nor done
StaysReady(id) ==
  /\ \E i \in 1..Len(starvation_timeline) : starvation_timeline[i].id = id
  /\ promise_status[id] \in {"ForceSuspended", "Executing"}
PushedNow(id) == \E k \in 1..Len(pushed) : pushed[k][1] = id

\* C31: under repeated ticks in which running tasks honour force-suspend
\* requests, every task that stays in the timeline in a non-suspended,
\* non-terminal state is eventually pushed to a thread slot, even while tasks of
\* higher priority remain ready.
C31_EveryReadyTaskPushed ==
  \A id \in TaskIds : ([]StaysReady(id)) => <>PushedNow(id)

-----------------------------------------------------------------------------
(* AssetManager: properties *)

\* C34: AssetManager::tick never discards an asset while a handle returned by
\* get() for it is held outside the manager; only a Loaded asset that has been
\* stale for more than max_stale_ticks ticks and has no outside holder becomes
\* Unloaded.
C34_NoDiscardWhileHeld ==
  [][\A tag \in AssetTags :
       (data_state[tag] # "Unloaded" /\ data_state'[tag] = "Unloaded"
          /\ data_state[tag] # "NoEntry") =>
         /\ data_state[tag] = "Loaded"
         /\ data_holders[tag] = 0
         /\ ticks_since_get'[tag] > MaxStaleTicks]_vars

\* an asset was discarded after its handle was dropped, while the handle of
\* another asset, stale for longer than max_stale_ticks, is held and the asset
\* is kept
C34_Witness ==
  \E a, b \in AssetTags :
    /\ a \in discarded
    /\ data_state[a] = "Unloaded"
    /\ data_state[b] = "Loaded"
    /\ data_holders[b] > 0
    /\ data_stale_ticks[b] > MaxStaleTicks

-----------------------------------------------------------------------------
(* SpinLock: properties *)

\* C35: SpinLock::try_lock returns true if and only if the call acquired the
\* lock (the lock was free and is now held by the caller), and returns false
\* without changing the lock state when the lock was already held.
C35_TryLockReturnsAcquired ==
  \A t \in LockThreads :
    spin_returned[t] # "none" =>
      /\ spin_returned[t] = "true" <=> spin_acquired[t]
      /\ spin_returned[t] = "false" => spin_seen[t] = <<TRUE, TRUE>>

-----------------------------------------------------------------------------
(* ReadWriteLock: progress *)

InLockWrite(t) == rw_pc[t][1] = "lock_write"
InLockRead(t) == rw_pc[t][1] = "lock_read"
WriterProgress == \A t \in LockThreads : InLockWrite(t) ~> (rw_holds[t] = "write")
ReaderProgress ==
  \A t \in LockThreads :
    InLockRead(t) ~> (rw_holds[t] = "read" \/ num_writers_ # 0)

\* C36: under fair thread scheduling, and provided every holder eventually
\* unlocks, a thread blocked in lock_write eventually acquires the lock even if
\* other threads keep issuing lock_read / unlock_read, and a thread blocked in
\* lock_read eventually acquires it once no writer holds the lock.
C36_LockProgress == WriterProgress /\ ReaderProgress

-----------------------------------------------------------------------------
(* Canvas::text: properties *)

\* the top of line k (doubled): the start plus the heights of all lines before
TrueLineY(k) == -SumHeights(td_lines, Len(td_lines)) + 2 * SumHeights(td_lines, k - 1)

\* C37: a line is skipped if and only if its rectangle at its true vertical
\* position (offset by the summed heights of all preceding lines, drawn or
\* skipped) does not overlap the clip; skipping a line does not change the
\* baseline of any later line.
C37_SkipAtTruePosition ==
  \A k \in 1..Len(td_out) :
    /\ td_out[k].skipped <=> ~overlaps(ClipRect, LineRect(TrueLineY(k), td_lines[k]))
    /\ ~td_out[k].skipped =>
         td_out[k].baseline =
           TrueLineY(k) + 2 * td_lines[k].height - 2 * td_lines[k].descent

-----------------------------------------------------------------------------
(* path::rrect: range of the clamped radii *)

\* C39: for any non-negative input radii, every radius after the doubling and
\* the clamp chain of path::rrect lies in [0, 2]; no clamped radius is negative.
C39_ClampedRadiiInRange ==
  (rrect_clamped # <<>> /\ \A c \in 1..4 : ~rrect_radii[c].nan /\ rrect_radii[c].v >= 0) =>
    \A c \in 1..4 :
      ~rrect_clamped[c].nan /\ 0 <= rrect_clamped[c].v /\ rrect_clamped[c].v <= Two.v

-----------------------------------------------------------------------------
(* stagger_grid_delay: properties *)

\* C40: stagger_grid_delay calls the easing function if and only if one is
\* provided, and otherwise returns the default grid-based delay; it never
\* invokes a null easing function.
C40_EasingCalledIffProvided ==
  sg_outcome.kind # "none" =>
    /\ sg_invoked <=> sg_opts.easing
    /\ ~sg_opts.easing => sg_outcome.kind = "default"
    /\ sg_outcome.kind # "bad_function_call"

-----------------------------------------------------------------------------
(* path::rrect: number of vertices *)

\* C38: path::rrect with N >= 8 appends exactly 4 * ((N - 8) / 4 + 2) vertices
\* (integer division), and every appended vertex is assigned a value.
C38_RRectVertexCount ==
  (rv_pc = "done" /\ rv_segments >= 8) =>
    /\ rv_size - rv_first = 4 * ((rv_segments - 8) \div 4 + 2)
    /\ \A k \in rv_first..(rv_size - 1) : k \in rv_written

====
